---- MODULE Spec2Model ----
(***************************************************************************)
(* A model of scripts/decode_url.py: the token decoder                     *)
(* (decode_fractalwonder_url), the binary-fraction converter               *)
(* (binary_to_decimal), the number renderer (format_bigfloat) and the      *)
(* report builder (format_viewport).                                       *)
(*                                                                         *)
(* Text is modelled by TLA+ strings, bytes by integers 0..255, a Decimal   *)
(* by its sign, coefficient digits and exponent, and a JSON value by a     *)
(* tagged record.                                                          *)
(***************************************************************************)
EXTENDS Integers, Sequences, FiniteSets, TLC

(***************************************************************************)
(* Strings                                                                 *)
(***************************************************************************)
At(s, i) == SubSeq(s, i, i)

startswith(s, p) == Len(s) >= Len(p) /\ SubSeq(s, 1, Len(p)) = p

Contains(s, c) == \E i \in 1..Len(s) : At(s, i) = c

\* str.find for a one-character needle: the first index (1-based), 0 if absent
Find(s, c) == IF Contains(s, c)
              THEN CHOOSE i \in 1..Len(s) :
                     At(s, i) = c /\ \A j \in 1..(i - 1) : At(s, j) # c
              ELSE 0

RECURSIVE Repeat(_, _)
\* c * n, built by doubling
Repeat(c, n) ==
  IF n <= 0 THEN ""
  ELSE LET h == Repeat(c, n \div 2)
       IN  IF n % 2 = 1 THEN h \o h \o c ELSE h \o h

DigitChars == "0123456789"

\* The characters 32 to 126 in their order, but for the grave accent (96),
\* which no TLA+ string holds: a blank stands in its place
Printable ==
  " !\"#$%&'()*+,-./0123456789:;<=>?@ABCDEFGHIJKLMNOPQRSTUVWXYZ[\\]^_ abcdefghijklmnopqrstuvwxyz{|}~"

\* The characters 161 to 255 in their order, but for the soft hyphen (173),
\* which is not printable: a blank stands in its place
Latin1 ==
  "¡¢£¤¥¦§¨©ª«¬ ®¯°±²³´µ¶·¸¹º»¼½¾¿ÀÁÂÃÄÅÆÇÈÉÊËÌÍÎÏÐ"
  \o "ÑÒÓÔÕÖ×ØÙÚÛÜÝÞßàáâãäåæçèéêëìíîïðñòóôõö÷øùúûüýþÿ"

\* Whether c is one of them, and its code point
IsLatin1(c) == c # " " /\ Contains(Latin1, c)
Latin1Code(c) == 160 + Find(Latin1, c)

RECURSIVE IntStr(_)
\* str(n) for an int n
IntStr(n) == IF n < 0 THEN "-" \o IntStr(-n)
             ELSE IF n < 10 THEN At(DigitChars, n + 1)
             ELSE IntStr(n \div 10) \o At(DigitChars, (n % 10) + 1)

(***************************************************************************)
(* Exceptions                                                              *)
(***************************************************************************)
NoError == [cls |-> "", msg |-> ""]
Raise(c, m) == [cls |-> c, msg |-> m]

FormatErrorMsg == "Invalid format: expected 'v1:' prefix"

(***************************************************************************)
(* decode_fractalwonder_url, lines 26-30: the fragment of a URL            *)
(***************************************************************************)
IsUrl(url_or_hash) ==
  startswith(url_or_hash, "http://") \/ startswith(url_or_hash, "https://")

UrlOk(fragment) == [ok |-> TRUE, fragment |-> fragment, err |-> NoError,
                    unmodelled |-> FALSE]
UrlErr(e) == [ok |-> FALSE, fragment |-> "", err |-> e, unmodelled |-> FALSE]
UrlUnmodelled == [ok |-> FALSE, fragment |-> "", err |-> NoError,
                  unmodelled |-> TRUE]

RECURSIVE RemoveRange(_, _, _)
\* The characters lo..hi of url without tabs, carriage returns and line feeds
RemoveRange(url, lo, hi) ==
  IF lo > hi THEN ""
  ELSE IF lo = hi
  THEN IF At(url, lo) \in {"\t", "\r", "\n"} THEN "" ELSE At(url, lo)
  ELSE LET mid == (lo + hi) \div 2
           left == RemoveRange(url, lo, mid)
       IN  IF Len(left) < 0 THEN left
           ELSE left \o RemoveRange(url, mid + 1, hi)

\* urlsplit drops every tab, carriage return and line feed of the URL
RemoveUnsafe(url) == RemoveRange(url, 1, Len(url))

\* _splitnetloc(url, 2): the index of the first of '/', '?', '#' from the third
\* character on, Len(url) + 1 without one
NetlocEnd(url) ==
  LET found == {i \in 3..Len(url) : At(url, i) \in {"/", "?", "#"}}
  IN  IF found = {} THEN Len(url) + 1
      ELSE CHOOSE i \in found : \A j \in found : i <= j

\* The characters of a bracketed host that no IP literal can hold: with only
\* these, ipaddress.ip_address refuses the host
NoIpChars == {"x", "[", "]", "y", "z", "-", "_", "~"}

\* netloc.partition('[')[2].partition(']')[0]
BracketedHost(netloc) ==
  LET after == SubSeq(netloc, Find(netloc, "[") + 1, Len(netloc))
      close == Find(after, "]")
  IN  IF close = 0 THEN after ELSE SubSeq(after, 1, close - 1)

\* urlparse(url) for a url that starts with http:// or https://: the scheme is
\* split off at the first ':', the netloc runs up to the first of '/', '?',
\* '#', its brackets are checked, and the fragment is what follows the first
\* '#' of the rest.  A netloc that is not ASCII, or a bracketed host that
\* could be an address, is left unmodelled.
urlparse(url) ==
  LET clean == RemoveUnsafe(url)
      rest == SubSeq(clean, Find(clean, ":") + 1, Len(clean))
      delim == NetlocEnd(rest)
      netloc == SubSeq(rest, 3, delim - 1)
      tail == SubSeq(rest, delim, Len(rest))
      hash == Find(tail, "#")
      host == BracketedHost(netloc)
  IN  IF Contains(netloc, "[") # Contains(netloc, "]")
      THEN UrlErr(Raise("ValueError", "Invalid IPv6 URL"))
      ELSE IF Contains(netloc, "[")
      THEN IF \A i \in 1..Len(host) : At(host, i) \in NoIpChars
           THEN UrlErr(Raise("ValueError", "'" \o host
                  \o "' does not appear to be an IPv4 or IPv6 address"))
           ELSE UrlUnmodelled
      ELSE IF \E i \in 1..Len(netloc) : At(netloc, i) \in {"é"}
      THEN UrlUnmodelled
      ELSE UrlOk(IF hash = 0 THEN "" ELSE SubSeq(tail, hash + 1, Len(tail)))

\* Lines 26-30: hash_data, or the error of urlparse
ExtractHash(url_or_hash) ==
  IF IsUrl(url_or_hash) THEN urlparse(url_or_hash) ELSE UrlOk(url_or_hash)

(***************************************************************************)
(* decode_fractalwonder_url, lines 33-42: the marker and the padding       *)
(***************************************************************************)
\* A decoder that takes any one-digit version for the marker
HasMarkerAnyVersion(hash_data) ==
  /\ Len(hash_data) >= 3
  /\ At(hash_data, 1) = "v"
  /\ Contains(DigitChars, At(hash_data, 2))
  /\ At(hash_data, 3) = ":"

\* Line 33
HasMarker(hash_data) == startswith(hash_data, "v1:")

StripMarker(hash_data) == SubSeq(hash_data, 4, Len(hash_data))

PaddingOf(encoded) == 4 - (Len(encoded) % 4)

\* A decoder without the test of line 41
RepadAlways(encoded) == encoded \o Repeat("=", PaddingOf(encoded))

\* Lines 40-42
Repad(encoded) ==
  IF PaddingOf(encoded) # 4
  THEN encoded \o Repeat("=", PaddingOf(encoded))
  ELSE encoded

(***************************************************************************)
(* base64.urlsafe_b64decode (line 44): ASCII check, '-' and '_' translated *)
(* to '+' and '/', then binascii.a2b_base64 in its lenient mode, which     *)
(* skips every character outside the alphabet.                             *)
(***************************************************************************)
B64Std == "ABCDEFGHIJKLMNOPQRSTUVWXYZabcdefghijklmnopqrstuvwxyz0123456789+/"

B64Table == [c \in {At(B64Std, i) : i \in 1..64} |->
               (CHOOSE i \in 1..64 : At(B64Std, i) = c) - 1]

\* The characters of the model that are not ASCII
NonAscii == {At(Latin1, i) : i \in 1..Len(Latin1)} \ {" "}

UrlsafeTranslate(c) == IF c = "-" THEN "+" ELSE IF c = "_" THEN "/" ELSE c

B64Val(c) == LET d == UrlsafeTranslate(c)
             IN  IF d \in DOMAIN B64Table THEN B64Table[d] ELSE 64

\* The decoder's state: the position in the quad, the bits left over, the
\* pad characters seen in this quad, the bytes so far, and whether a complete
\* padding has ended the data
B64Start == [quad_pos |-> 0, leftchar |-> 0, pads |-> 0, out |-> << >>,
             stop |-> FALSE]

\* One turn of the loop of binascii.a2b_base64 on the character c
B64Step(st, c) ==
  LET v == B64Val(c)
      quad_pos == st.quad_pos
      leftchar == st.leftchar
  IN  IF st.stop THEN st
      ELSE IF c = "="
      THEN IF quad_pos >= 2 /\ quad_pos + st.pads + 1 >= 4
           THEN [st EXCEPT !.stop = TRUE]
           ELSE [st EXCEPT !.pads = IF quad_pos >= 2 THEN @ + 1 ELSE @]
      ELSE IF v >= 64 THEN st
      ELSE CASE quad_pos = 0 ->
                  [st EXCEPT !.quad_pos = 1, !.leftchar = v, !.pads = 0]
             [] quad_pos = 1 ->
                  [st EXCEPT !.quad_pos = 2, !.leftchar = v % 16, !.pads = 0,
                             !.out = Append(@, leftchar * 4 + (v \div 16))]
             [] quad_pos = 2 ->
                  [st EXCEPT !.quad_pos = 3, !.leftchar = v % 4, !.pads = 0,
                             !.out = Append(@, leftchar * 16 + (v \div 4))]
             [] OTHER ->
                  [st EXCEPT !.quad_pos = 0, !.leftchar = 0, !.pads = 0,
                             !.out = Append(@, leftchar * 64 + v)]

RECURSIVE B64Run(_, _, _, _)
\* The loop over the characters lo..hi of s, the range halved at each level
B64Run(s, lo, hi, st) ==
  IF lo > hi THEN st
  ELSE IF lo = hi THEN B64Step(st, At(s, lo))
  ELSE LET mid == (lo + hi) \div 2
           half == B64Run(s, lo, mid, st)
       IN  IF half.quad_pos < 0 THEN half ELSE B64Run(s, mid + 1, hi, half)

a2b_base64(s) ==
  LET st == B64Run(s, 1, Len(s), B64Start)
  IN  IF st.stop \/ st.quad_pos = 0
      THEN [ok |-> TRUE, data |-> st.out, err |-> NoError]
      ELSE [ok |-> FALSE, data |-> << >>,
            err |-> IF st.quad_pos = 1
                    THEN Raise("binascii.Error",
                           "Invalid base64-encoded string: number of data characters ("
                           \o IntStr((Len(st.out) \div 3) * 4 + 1)
                           \o ") cannot be 1 more than a multiple of 4")
                    ELSE Raise("binascii.Error", "Incorrect padding")]

urlsafe_b64decode(s) ==
  IF \E i \in 1..Len(s) : At(s, i) \in NonAscii
  THEN [ok |-> FALSE, data |-> << >>,
        err |-> Raise("ValueError",
                      "string argument should contain only ASCII characters")]
  ELSE a2b_base64(s)

(***************************************************************************)
(* zlib.decompress(compressed, -zlib.MAX_WBITS) (line 47): raw DEFLATE.    *)
(* Stored and fixed-Huffman blocks are decoded in full.  A dynamic-Huffman *)
(* block is followed through its header; its code tables are not modelled  *)
(* and such an input is reported as unmodelled (no input of the model is). *)
(* Data after the final block is ignored, as zlib.decompress does.          *)
(***************************************************************************)
Pow2(n) == 2 ^ n

NBits(data) == 8 * Len(data)

\* Bit p (0-based, least significant bit of each byte first)
BitAt(data, p) == (data[(p \div 8) + 1] \div Pow2(p % 8)) % 2

RECURSIVE ReadBits(_, _, _)
\* n bits from p as an integer, first bit least significant (header fields, extra bits)
ReadBits(data, p, n) ==
  IF n = 0 THEN 0 ELSE BitAt(data, p) + 2 * ReadBits(data, p + 1, n - 1)

RECURSIVE ReadCode(_, _, _)
\* n bits from p as a Huffman code, first bit most significant
ReadCode(data, p, n) ==
  IF n = 0 THEN 0
  ELSE BitAt(data, p) * Pow2(n - 1) + ReadCode(data, p + 1, n - 1)

ZlibTruncated ==
  Raise("zlib.error",
        "Error -5 while decompressing data: incomplete or truncated stream")
ZlibData(m) == Raise("zlib.error", "Error -3 while decompressing data: " \o m)

InflateOk(out) == [ok |-> TRUE, data |-> out, err |-> NoError, unmodelled |-> FALSE]
InflateErr(e) == [ok |-> FALSE, data |-> << >>, err |-> e, unmodelled |-> FALSE]
InflateUnmodelled ==
  [ok |-> FALSE, data |-> << >>, err |-> NoError, unmodelled |-> TRUE]

LengthBase == <<3, 4, 5, 6, 7, 8, 9, 10, 11, 13, 15, 17, 19, 23, 27, 31, 35, 43,
                51, 59, 67, 83, 99, 115, 131, 163, 195, 227, 258>>
LengthExtra == <<0, 0, 0, 0, 0, 0, 0, 0, 1, 1, 1, 1, 2, 2, 2, 2, 3, 3, 3, 3,
                 4, 4, 4, 4, 5, 5, 5, 5, 0>>
DistBase == <<1, 2, 3, 4, 5, 7, 9, 13, 17, 25, 33, 49, 65, 97, 129, 193, 257,
              385, 513, 769, 1025, 1537, 2049, 3073, 4097, 6145, 8193, 12289,
              16385, 24577>>
DistExtra == <<0, 0, 0, 0, 1, 1, 2, 2, 3, 3, 4, 4, 5, 5, 6, 6, 7, 7, 8, 8,
               9, 9, 10, 10, 11, 11, 12, 12, 13, 13>>

\* The fixed literal/length code at bit p: [sym, bits], sym = -1 when the
\* input ends inside the code
FixedLitLen(data, p) ==
  LET avail == NBits(data) - p
      c7 == ReadCode(data, p, 7)
      c8 == ReadCode(data, p, 8)
      c9 == ReadCode(data, p, 9)
  IN  IF avail < 7 THEN [sym |-> -1, bits |-> 0]
      ELSE IF c7 <= 23 THEN [sym |-> 256 + c7, bits |-> 7]
      ELSE IF avail < 8 THEN [sym |-> -1, bits |-> 0]
      ELSE IF c8 >= 48 /\ c8 <= 191 THEN [sym |-> c8 - 48, bits |-> 8]
      ELSE IF c8 >= 192 /\ c8 <= 199 THEN [sym |-> 280 + (c8 - 192), bits |-> 8]
      ELSE IF avail < 9 THEN [sym |-> -1, bits |-> 0]
      ELSE [sym |-> 144 + (c9 - 400), bits |-> 9]

\* length bytes copied from dist back, byte by byte (the copy may overlap
\* itself: byte k of the copy is byte ((k - 1) mod dist) of the source)
CopyMatch(out, dist, length) ==
  out \o [k \in 1..length |-> out[Len(out) - dist + 1 + ((k - 1) % dist)]]

\* The decompressor between two steps: in a fixed-Huffman block or between
\* blocks, at bit p, with the output so far; res is the outcome once done
InflateAt(mode, p, out, last) ==
  [mode |-> mode, p |-> p, out |-> out, last |-> last, done |-> FALSE,
   res |-> InflateUnmodelled]
InflateDone(res) ==
  [mode |-> "end", p |-> 0, out |-> << >>, last |-> TRUE, done |-> TRUE,
   res |-> res]

\* One symbol of a fixed-Huffman block from bit st.p
InflateFixed(data, st) ==
  LET p == st.p
      out == st.out
      last == st.last
      ll == FixedLitLen(data, p)
      q == p + ll.bits
  IN  IF ll.sym < 0 THEN InflateDone(InflateErr(ZlibTruncated))
      ELSE IF ll.sym < 256
      THEN InflateAt("fixed", q, Append(out, ll.sym), last)
      ELSE IF ll.sym = 256
      THEN IF last THEN InflateDone(InflateOk(out))
           ELSE InflateAt("blocks", q, out, FALSE)
      ELSE IF ll.sym > 285
      THEN InflateDone(InflateErr(ZlibData("invalid literal/length code")))
      ELSE LET li == ll.sym - 256
               le == LengthExtra[li]
               r == q + le
           IN  IF NBits(data) - q < le
               THEN InflateDone(InflateErr(ZlibTruncated))
               ELSE IF NBits(data) - r < 5
               THEN InflateDone(InflateErr(ZlibTruncated))
               ELSE LET length == LengthBase[li] + ReadBits(data, q, le)
                        dc == ReadCode(data, r, 5)
                    IN  IF dc > 29
                        THEN InflateDone(InflateErr(ZlibData(
                               "invalid distance code")))
                        ELSE LET de == DistExtra[dc + 1]
                                 t == r + 5
                             IN  IF NBits(data) - t < de
                                 THEN InflateDone(InflateErr(ZlibTruncated))
                                 ELSE LET dist == DistBase[dc + 1]
                                                    + ReadBits(data, t, de)
                                      IN  IF dist > Len(out)
                                          THEN InflateDone(InflateErr(ZlibData(
                                                 "invalid distance too far back")))
                                          ELSE InflateAt("fixed", t + de,
                                                 CopyMatch(out, dist, length),
                                                 last)

\* The header of the block at bit st.p, and the whole of a stored block
InflateBlocks(data, st) ==
  LET p == st.p
      out == st.out
  IN
  IF NBits(data) - p < 3 THEN InflateDone(InflateErr(ZlibTruncated))
  ELSE LET last == BitAt(data, p) = 1
           btype == ReadBits(data, p + 1, 2)
           q == p + 3
       IN  CASE btype = 0 ->
                  LET b == ((q + 7) \div 8) * 8      \* next byte boundary
                      len == ReadBits(data, b, 16)
                      nlen == ReadBits(data, b + 16, 16)
                      first == (b \div 8) + 5        \* index of the first data byte
                  IN  IF NBits(data) - b < 32
                      THEN InflateDone(InflateErr(ZlibTruncated))
                      ELSE IF len + nlen # 65535
                      THEN InflateDone(InflateErr(ZlibData(
                             "invalid stored block lengths")))
                      ELSE IF Len(data) - (first - 1) < len
                      THEN InflateDone(InflateErr(ZlibTruncated))
                      ELSE LET out2 == out \o SubSeq(data, first, first + len - 1)
                           IN  IF last THEN InflateDone(InflateOk(out2))
                               ELSE InflateAt("blocks", b + 32 + 8 * len, out2,
                                              FALSE)
             [] btype = 1 -> InflateAt("fixed", q, out, last)
             [] btype = 2 ->
                  IF NBits(data) - q < 14
                  THEN InflateDone(InflateErr(ZlibTruncated))
                  ELSE LET nlen == 257 + ReadBits(data, q, 5)
                           ndist == 1 + ReadBits(data, q + 5, 5)
                           ncode == 4 + ReadBits(data, q + 10, 4)
                       IN  IF nlen > 286 \/ ndist > 30
                           THEN InflateDone(InflateErr(ZlibData(
                                  "too many length or distance symbols")))
                           ELSE IF NBits(data) - (q + 14) < 3 * ncode
                           THEN InflateDone(InflateErr(ZlibTruncated))
                           ELSE InflateDone(InflateUnmodelled)
             [] OTHER -> InflateDone(InflateErr(ZlibData("invalid block type")))

InflateStep(data, st) ==
  IF st.done THEN st
  ELSE IF st.mode = "fixed" THEN InflateFixed(data, st)
  ELSE InflateBlocks(data, st)

RECURSIVE InflateRun(_, _, _)
\* n steps from st, the count halved at each level; a step reads at least
\* three bits, so NBits(data) steps reach the end
InflateRun(data, st, n) ==
  IF st.done \/ n <= 0 THEN st
  ELSE IF n = 1 THEN InflateStep(data, st)
  ELSE LET half == InflateRun(data, st, n \div 2)
       IN  IF half.done THEN half
           ELSE InflateRun(data, half, n - (n \div 2))

zlib_decompress(compressed) ==
  InflateRun(compressed, InflateAt("blocks", 0, << >>, FALSE),
             NBits(compressed) + 1).res

(***************************************************************************)
(* bytes.decode("utf-8") (line 50): the code points of the text, or        *)
(* UnicodeDecodeError.                                                     *)
(***************************************************************************)
HexChars == "0123456789abcdef"

Hex2(b) == At(HexChars, (b \div 16) + 1) \o At(HexChars, (b % 16) + 1)

IsCont(b) == b >= 128 /\ b <= 191

\* The length of the sequence a lead byte announces (0: no lead byte)
Utf8Need(b) ==
  IF b < 128 THEN 1
  ELSE IF b >= 194 /\ b <= 223 THEN 2
  ELSE IF b >= 224 /\ b <= 239 THEN 3
  ELSE IF b >= 240 /\ b <= 244 THEN 4
  ELSE 0

\* Whether b may follow the lead byte lead as its first continuation byte
FirstContOk(lead, b) ==
  CASE lead = 224 -> b >= 160 /\ b <= 191
    [] lead = 237 -> b >= 128 /\ b <= 159
    [] lead = 240 -> b >= 144 /\ b <= 191
    [] lead = 244 -> b >= 128 /\ b <= 143
    [] OTHER -> IsCont(b)

\* The number of well-formed continuation bytes after the lead byte at i
ContRun(data, i) ==
  LET need == Utf8Need(data[i])
      okAt(k) == i + k <= Len(data)
                 /\ (IF k = 1 THEN FirstContOk(data[i], data[i + k])
                     ELSE IsCont(data[i + k]))
  IN  IF \A k \in 1..(need - 1) : okAt(k) THEN need - 1
      ELSE (CHOOSE k \in 1..(need - 1) :
              ~okAt(k) /\ \A j \in 1..(k - 1) : okAt(j)) - 1

Utf8Error(data, i, run, reason) ==
  Raise("UnicodeDecodeError",
        IF run = 0
        THEN "'utf-8' codec can't decode byte 0x" \o Hex2(data[i])
             \o " in position " \o IntStr(i - 1) \o ": " \o reason
        ELSE "'utf-8' codec can't decode bytes in position " \o IntStr(i - 1)
             \o "-" \o IntStr(i - 1 + run) \o ": " \o reason)

\* The code point of the well-formed sequence of n bytes at i
CodePoint(data, i, n) ==
  CASE n = 1 -> data[i]
    [] n = 2 -> (data[i] % 32) * 64 + (data[i + 1] % 64)
    [] n = 3 -> (data[i] % 16) * 4096 + (data[i + 1] % 64) * 64
                + (data[i + 2] % 64)
    [] OTHER -> (data[i] % 8) * 262144 + (data[i + 1] % 64) * 4096
                + (data[i + 2] % 64) * 64 + (data[i + 3] % 64)

Utf8At(i, out) == [i |-> i, out |-> out, done |-> FALSE, err |-> NoError]
Utf8Fail(e) == [i |-> 0, out |-> << >>, done |-> TRUE, err |-> e]

\* One character from byte st.i on
Utf8From(data, st) ==
  LET i == st.i
      need == Utf8Need(data[i])
      run == ContRun(data, i)
  IN  IF st.done \/ i > Len(data) THEN st
      ELSE IF need = 0
      THEN Utf8Fail(Utf8Error(data, i, 0, "invalid start byte"))
      ELSE IF run < need - 1
      THEN Utf8Fail(Utf8Error(data, i, run,
                      IF i + run = Len(data)
                      THEN "unexpected end of data"
                      ELSE "invalid continuation byte"))
      ELSE Utf8At(i + need, Append(st.out, CodePoint(data, i, need)))

RECURSIVE Utf8Run(_, _, _)
\* n characters from st on, the count halved at each level
Utf8Run(data, st, n) ==
  IF st.done \/ n <= 0 THEN st
  ELSE IF n = 1 THEN Utf8From(data, st)
  ELSE LET half == Utf8Run(data, st, n \div 2)
       IN  IF half.done THEN half ELSE Utf8Run(data, half, n - (n \div 2))

utf8_decode(data) ==
  LET st == Utf8Run(data, Utf8At(1, << >>), Len(data))
  IN  IF st.done THEN [ok |-> FALSE, text |-> << >>, err |-> st.err]
      ELSE [ok |-> TRUE, text |-> st.out, err |-> NoError]

(***************************************************************************)
(* decimal.Decimal: [sign, int, exp] is (-1)^sign * int * 10^exp, int the  *)
(* coefficient's digits, most significant first, as Decimal.as_tuple       *)
(* gives them.  Every operation rounds its exact result to the context's   *)
(* precision (ROUND_HALF_EVEN, the default rounding).                      *)
(***************************************************************************)
DefaultPrec == 28

Dec(sg, digits, e) == [sign |-> sg, int |-> digits, exp |-> e]

DecZero == Dec(0, <<0>>, 0)

IsZero(x) == x.int = <<0>>

Zeros(n) == [k \in 1..n |-> 0]

\* digits without their leading zeros (<<0>> for zero)
StripLeading(d) ==
  IF \A k \in 1..Len(d) : d[k] = 0 THEN <<0>>
  ELSE LET f == CHOOSE k \in 1..Len(d) :
                  d[k] # 0 /\ \A j \in 1..(k - 1) : d[j] = 0
       IN  SubSeq(d, f, Len(d))

RECURSIVE DigitsOfInt(_)
DigitsOfInt(n) ==
  IF n < 10 THEN <<n>> ELSE Append(DigitsOfInt(n \div 10), n % 10)

RECURSIVE AddRange(_, _, _, _)
\* <<carry out, digits lo..hi>> of the digit-wise sums s with the carry cin
\* coming in at hi (the least significant end)
AddRange(s, lo, hi, cin) ==
  IF lo = hi
  THEN <<(s[lo] + cin) \div 10, (s[lo] + cin) % 10>>
  ELSE LET mid == (lo + hi) \div 2
           R == AddRange(s, mid + 1, hi, cin)
       IN  IF Len(R) = 0 THEN R
           ELSE AddRange(s, lo, mid, R[1]) \o Tail(R)

\* a + b for digit sequences
AddDigits(a, b) ==
  LET n == IF Len(a) > Len(b) THEN Len(a) ELSE Len(b)
      pa == Zeros(n - Len(a)) \o a
      pb == Zeros(n - Len(b)) \o b
      s == SubSeq([k \in 1..n |-> pa[k] + pb[k]], 1, n)
      r == AddRange(s, 1, n, 0)
  IN  IF r[1] = 0 THEN Tail(r) ELSE r

\* Decimal._fix: the coefficient rounded half-even to prec digits
Fix(x, prec) ==
  LET n == Len(x.int)
      keep == SubSeq(x.int, 1, prec)
      rest == SubSeq(x.int, prec + 1, n)
      half == rest[1] = 5 /\ \A k \in 2..Len(rest) : rest[k] = 0
      up == rest[1] > 5 \/ (rest[1] = 5 /\ ~half)
            \/ (half /\ keep[prec] % 2 = 1)
      inc == AddDigits(keep, <<1>>)
  IN  IF n <= prec THEN x
      ELSE IF ~up THEN Dec(x.sign, keep, x.exp + (n - prec))
      ELSE IF Len(inc) > prec
      THEN Dec(x.sign, SubSeq(inc, 1, prec), x.exp + (n - prec) + 1)
      ELSE Dec(x.sign, inc, x.exp + (n - prec))

\* The nines' complement of a digit sequence
Complement(d) == SubSeq([k \in 1..Len(d) |-> 9 - d[k]], 1, Len(d))

\* d with zeros in front, n digits in all
PadTo(d, n) == Zeros(n - Len(d)) \o d

\* s is a plus the complement of b plus 1, for a and b of n digits: it
\* carries out of the top digit exactly when a >= b, and its other digits
\* are a - b; without the carry it is 10^n - (b - a)
SubCarried(s, n) ==
  IF Len(s) > n THEN <<TRUE, Tail(s)>>
  ELSE <<FALSE, AddDigits(Complement(PadTo(s, n)), <<1>>)>>

SubPadded(pa, pb) ==
  SubCarried(AddDigits(AddDigits(pa, Complement(pb)), <<1>>), Len(pa))

\* <<a >= b, |a - b|>> for digit sequences
SubDigits(a, b) ==
  SubPadded(PadTo(a, IF Len(a) > Len(b) THEN Len(a) ELSE Len(b)),
            PadTo(b, IF Len(a) > Len(b) THEN Len(a) ELSE Len(b)))

\* The rounded result of the sign and the digits; a zero difference is
\* positive
DecDiff(sa, sb, ab, e, prec) ==
  IF \A k \in 1..Len(ab[2]) : ab[2][k] = 0 THEN Dec(0, <<0>>, e)
  ELSE Fix(Dec(IF ab[1] THEN sa ELSE sb, StripLeading(ab[2]), e), prec)

\* The sum of two coefficients at one exponent: of operands of different
\* signs the smaller magnitude is taken from the larger
DecAddAligned(sa, da, sb, db, e, prec) ==
  IF sa = sb THEN Fix(Dec(sa, StripLeading(AddDigits(da, db)), e), prec)
  ELSE DecDiff(sa, sb, SubDigits(da, db), e, prec)

\* The digits of x's coefficient at the exponent e <= x.exp
DigitsAt(x, e) == x.int \o Zeros(x.exp - e)

\* The sum at the exponent e
DecAddAt(a, b, e, prec) ==
  DecAddAligned(a.sign, DigitsAt(a, e), b.sign, DigitsAt(b, e), e, prec)

\* Decimal.__add__: the exact sum at the smaller exponent, rounded
DecAdd(a, b, prec) ==
  DecAddAt(a, b, IF a.exp < b.exp THEN a.exp ELSE b.exp, prec)

\* Decimal.__neg__: the sign flipped, a zero made positive, then rounded
DecNeg(x, prec) ==
  IF IsZero(x) THEN Fix(Dec(0, x.int, x.exp), prec)
  ELSE Fix(Dec(1 - x.sign, x.int, x.exp), prec)

\* Decimal.__abs__
DecAbs(x, prec) == Fix(Dec(0, x.int, x.exp), prec)

\* 5 * d for a digit sequence: 5*d = 10*(d div 2) + 5*(d mod 2) digit by
\* digit, so no carry arises
Times5(d) ==
  LET n == Len(d)
      r == [j \in 1..(n + 1) |->
              (IF j <= n THEN d[j] \div 2 ELSE 0)
              + (IF j >= 2 THEN 5 * (d[j - 1] % 2) ELSE 0)]
  IN  IF r[1] = 0 THEN SubSeq(r, 2, n + 1) ELSE SubSeq(r, 1, n + 1)

RECURSIVE Times5N(_, _)
\* d * 5^n
Times5N(d, n) ==
  IF n = 0 THEN d
  ELSE IF n = 1 THEN Times5(d)
  ELSE LET h == Times5N(d, n \div 2)
       IN  IF Len(h) = 0 THEN h ELSE Times5N(h, n - (n \div 2))

\* The adjusted exponent: the exponent of the most significant digit
Adjusted(x) == x.exp + Len(x.int) - 1

\* abs(x) < Decimal("1e-10") for a nonzero x; a zero is smaller
LessThan1em10(x) == IsZero(x) \/ Adjusted(x) < -10

(***************************************************************************)
(* Python values as json.loads builds them.  A dict is modelled by its     *)
(* items in insertion order, each key once.                                *)
(***************************************************************************)
JNull == [t |-> "null"]
JBool(b) == [t |-> "bool", b |-> b]
JInt(n) == [t |-> "int", n |-> n]
JStr(s) == [t |-> "str", s |-> s]
JList(items) == [t |-> "list", items |-> items]
JDict(pairs) == [t |-> "dict", pairs |-> pairs]

EmptyDict == JDict(<< >>)

\* The items of a dict with the one item k: v
Single(k, v) == <<[k |-> k, v |-> v]>>

IsDict(v) == v.t = "dict"

\* k in d
HasKey(d, k) == \E i \in 1..Len(d.pairs) : d.pairs[i].k = k

\* d[k] for a key of d
Item(d, k) == d.pairs[CHOOSE i \in 1..Len(d.pairs) : d.pairs[i].k = k].v

\* d after d[k] = v: a key that is there keeps its place, a new one comes last
With(d, k, v) ==
  IF HasKey(d, k)
  THEN JDict(SubSeq([i \in 1..Len(d.pairs) |->
                       IF d.pairs[i].k = k THEN [k |-> k, v |-> v]
                       ELSE d.pairs[i]], 1, Len(d.pairs)))
  ELSE JDict(Append(d.pairs, [k |-> k, v |-> v]))

\* d.get(k, default)
Get(d, k, default) == IF HasKey(d, k) THEN Item(d, k) ELSE default

\* bool(v)
Truthy(v) ==
  CASE v.t = "null" -> FALSE
    [] v.t = "bool" -> v.b
    [] v.t = "int" -> v.n # 0
    [] v.t = "str" -> v.s # ""
    [] v.t = "list" -> Len(v.items) > 0
    [] OTHER -> Len(v.pairs) > 0

\* type(v).__name__
TypeName(v) ==
  CASE v.t = "null" -> "NoneType"
    [] v.t = "bool" -> "bool"
    [] v.t = "int" -> "int"
    [] v.t = "str" -> "str"
    [] v.t = "list" -> "list"
    [] OTHER -> "dict"

\* The characters of the model's texts: printable ASCII but for the grave
\* accent, the four control characters a TLA+ string can hold, and the
\* printable characters 161 to 255
KnownChars ==
  {At(Printable, i) : i \in 1..Len(Printable)} \cup {"\t", "\n", "\r", "\f"}
  \cup {At(Latin1, i) : i \in 1..Len(Latin1)}

TextModelled(text) == \A i \in 1..Len(text) : At(text, i) \in KnownChars

\* The values the model speaks for: every str in them, keys included, is of
\* known characters.  What Python writes for another character (an escape
\* for a non-printable one, the character itself or \uXXXX for a printable
\* one) or makes of it (a digit, white space) is not modelled.  None of the
\* known characters above '~' is a digit or white space to Python, and
\* each is printable.
RECURSIVE ReprModelled(_)
ReprModelled(v) ==
  CASE v.t = "str" -> TextModelled(v.s)
    [] v.t = "list" -> \A i \in 1..Len(v.items) : ReprModelled(v.items[i])
    [] v.t = "dict" -> \A i \in 1..Len(v.pairs) :
                          /\ TextModelled(v.pairs[i].k)
                          /\ ReprModelled(v.pairs[i].v)
    [] OTHER -> TRUE

\* The quote repr puts around a str: " when the str holds ' and no "
ReprQuote(text) ==
  IF Contains(text, "'") /\ ~Contains(text, "\"") THEN "\"" ELSE "'"

\* A character of a str as repr writes it between the quotes
ReprChar(c, quote) ==
  CASE c = "\\" -> "\\\\"
    [] c = quote -> "\\" \o quote
    [] c = "\n" -> "\\n"
    [] c = "\r" -> "\\r"
    [] c = "\t" -> "\\t"
    [] c = "\f" -> "\\x0c"
    [] OTHER -> c

RECURSIVE ReprRange(_, _, _, _)
ReprRange(text, lo, hi, quote) ==
  IF lo > hi THEN ""
  ELSE IF lo = hi THEN ReprChar(At(text, lo), quote)
  ELSE LET mid == (lo + hi) \div 2
           left == ReprRange(text, lo, mid, quote)
       IN  IF Len(left) < 0 THEN left
           ELSE left \o ReprRange(text, mid + 1, hi, quote)

\* repr of a str
ReprStr(text) ==
  ReprQuote(text) \o ReprRange(text, 1, Len(text), ReprQuote(text))
  \o ReprQuote(text)

RECURSIVE PyRepr(_)
RECURSIVE ReprItems(_, _)
RECURSIVE ReprPairs(_, _)
\* repr(v)
PyRepr(v) ==
  CASE v.t = "null" -> "None"
    [] v.t = "bool" -> IF v.b THEN "True" ELSE "False"
    [] v.t = "int" -> IntStr(v.n)
    [] v.t = "str" -> ReprStr(v.s)
    [] v.t = "list" -> "[" \o ReprItems(v.items, 1) \o "]"
    [] OTHER -> "{" \o ReprPairs(v.pairs, 1) \o "}"

ReprItems(items, i) ==
  IF i > Len(items) THEN ""
  ELSE PyRepr(items[i]) \o (IF i < Len(items) THEN ", " ELSE "")
       \o ReprItems(items, i + 1)

\* The items of a dict, in their order
ReprPairs(pairs, i) ==
  IF i > Len(pairs) THEN ""
  ELSE ReprStr(pairs[i].k) \o ": " \o PyRepr(pairs[i].v)
       \o (IF i < Len(pairs) THEN ", " ELSE "")
       \o ReprPairs(pairs, i + 1)

\* str(v)
PyStr(v) == IF v.t = "str" THEN v.s ELSE PyRepr(v)

AttributeError(v, attr) ==
  Raise("AttributeError",
        "'" \o TypeName(v) \o "' object has no attribute '" \o attr \o "'")

(***************************************************************************)
(* json.loads (line 50) on the code points of the text.  Modelled: objects, *)
(* arrays, strings of the known characters with the escapes \" \\ \/ \n   *)
(* \r \t \f, integers of at most nine digits, true, false, null, and      *)
(* every error of the grammar.  A float, a longer integer, a \b or \u      *)
(* escape or another string character makes the text unmodelled.           *)
(***************************************************************************)
\* chr(c) for a code point of the model
Chr(c) == IF c <= 126 THEN At(Printable, c - 31) ELSE At(Latin1, c - 160)

\* 32 to 126 but for the grave accent (96), 161 to 255 but for the soft
\* hyphen (173)
InModel(c) ==
  \/ c >= 32 /\ c <= 126 /\ c # 96
  \/ c >= 161 /\ c <= 255 /\ c # 173

RECURSIVE CpStrRange(_, _, _)
CpStrRange(text, lo, hi) ==
  IF lo > hi THEN ""
  ELSE IF lo = hi THEN Chr(text[lo])
  ELSE LET mid == (lo + hi) \div 2
       IN  CpStrRange(text, lo, mid) \o CpStrRange(text, mid + 1, hi)

POk(v, end) == [ok |-> TRUE, v |-> v, end |-> end, msg |-> "", pos |-> 0,
                unmodelled |-> FALSE]
PErr(msg, pos) == [ok |-> FALSE, v |-> JNull, end |-> 0, msg |-> msg,
                   pos |-> pos, unmodelled |-> FALSE]
PUnmodelled == [ok |-> FALSE, v |-> JNull, end |-> 0, msg |-> "", pos |-> 0,
                unmodelled |-> TRUE]

\* Indices into the text are Python's (0-based)
Ch(text, idx) == text[idx + 1]

IsWs(c) == c \in {32, 9, 10, 13}
IsDigit(c) == c >= 48 /\ c <= 57

\* The first index from idx on whose character is not white space
SkipWs(text, idx) ==
  IF \E j \in idx..(Len(text) - 1) : ~IsWs(Ch(text, j))
  THEN CHOOSE j \in idx..(Len(text) - 1) :
         ~IsWs(Ch(text, j)) /\ \A k \in idx..(j - 1) : IsWs(Ch(text, k))
  ELSE IF idx > Len(text) THEN idx ELSE Len(text)

\* The first index from idx on whose character is not a digit
SkipDigits(text, idx) ==
  IF \E j \in idx..(Len(text) - 1) : ~IsDigit(Ch(text, j))
  THEN CHOOSE j \in idx..(Len(text) - 1) :
         ~IsDigit(Ch(text, j)) /\ \A k \in idx..(j - 1) : IsDigit(Ch(text, k))
  ELSE IF idx > Len(text) THEN idx ELSE Len(text)

\* Whether the text holds the characters of word from idx on, with the
\* scanner's test idx + Len(word) - 1 < len(text)
LiteralAt(text, idx, word) ==
  /\ idx + Len(word) - 1 < Len(text)
  /\ \A k \in 1..Len(word) :
       LET c == Ch(text, idx + k - 1)
       IN  InModel(c) /\ Chr(c) = At(word, k)

RECURSIVE DecValue(_, _, _)
\* The value of the digits text[lo..hi] (0-based, inclusive)
DecValue(text, lo, hi) ==
  IF lo > hi THEN 0
  ELSE 10 * DecValue(text, lo, hi - 1) + (Ch(text, hi) - 48)

MaxIntDigits == 9

\* _match_number: the number at start, or StopIteration(start)
MatchNumber(text, start) ==
  LET n == Len(text)
      neg == Ch(text, start) = 45
      i0 == IF neg THEN start + 1 ELSE start
      c == Ch(text, i0)
      i1 == IF c = 48 THEN i0 + 1 ELSE SkipDigits(text, i0)
      frac == i1 < n - 1 /\ Ch(text, i1) = 46 /\ IsDigit(Ch(text, i1 + 1))
      k == i1 + 1
      k2 == IF k < n - 1 /\ Ch(text, k) \in {43, 45} THEN k + 1 ELSE k
      exp == /\ i1 < n - 1 /\ Ch(text, i1) \in {101, 69}
             /\ k2 <= n - 1 /\ IsDigit(Ch(text, k2))
      v == DecValue(text, i0, i1 - 1)
  IN  IF i0 > n - 1 THEN PErr("Expecting value", start)
      ELSE IF ~IsDigit(c) THEN PErr("Expecting value", start)
      ELSE IF frac \/ exp THEN PUnmodelled
      ELSE IF i1 - i0 > MaxIntDigits THEN PUnmodelled
      ELSE POk(JInt(IF neg THEN -v ELSE v), i1)

\* The character an escape \c stands for ("" when the model has none, "u"
\* and "b" being escapes the model does not follow)
Unescape(c) ==
  CASE c = 34 -> "\""
    [] c = 92 -> "\\"
    [] c = 47 -> "/"
    [] c = 110 -> "\n"
    [] c = 114 -> "\r"
    [] c = 116 -> "\t"
    [] c = 102 -> "\f"
    [] OTHER -> ""

RECURSIVE ScanString(_, _, _, _)
\* scanstring (strict): the string whose opening quote is at begin, read
\* from end on, acc being what was read so far
ScanString(text, begin, end, acc) ==
  LET n == Len(text)
      stop(j) == Ch(text, j) = 34 \/ Ch(text, j) = 92 \/ Ch(text, j) <= 31
      j == CHOOSE x \in end..(n - 1) :
             stop(x) /\ \A k \in end..(x - 1) : ~stop(k)
      chunkOk == \A k \in end..(j - 1) : InModel(Ch(text, k))
      chunk == CpStrRange(text, end + 1, j)
      e == Ch(text, j + 1)
  IN  IF ~\E x \in end..(n - 1) : stop(x)
      THEN PErr("Unterminated string starting at", begin)
      ELSE IF Ch(text, j) <= 31
      THEN PErr("Invalid control character at", j)
      ELSE IF Ch(text, j) = 34
      THEN IF chunkOk THEN POk(JStr(acc \o chunk), j + 1) ELSE PUnmodelled
      ELSE IF j + 1 = n
      THEN PErr("Unterminated string starting at", begin)
      ELSE IF e = 117 \/ e = 98 THEN PUnmodelled
      ELSE IF Unescape(e) = "" THEN PErr("Invalid \\escape", j)
      ELSE IF ~chunkOk THEN PUnmodelled
      ELSE ScanString(text, begin, j + 2, acc \o chunk \o Unescape(e))

RECURSIVE ScanOnce(_, _)
RECURSIVE ParseMembers(_, _, _)
RECURSIVE ParseItems(_, _, _)

\* _parse_object: the members from idx on (a '"' is expected at idx)
ParseMembers(text, idx, dict) ==
  LET n == Len(text)
      key == ScanString(text, idx, idx + 1, "")
      colon == SkipWs(text, key.end)
      val == ScanOnce(text, SkipWs(text, colon + 1))
      after == SkipWs(text, val.end)
      dict2 == With(dict, key.v.s, val.v)
  IN  IF idx > n - 1 \/ Ch(text, idx) # 34
      THEN PErr("Expecting property name enclosed in double quotes", idx)
      ELSE IF ~key.ok THEN key
      ELSE IF colon > n - 1 \/ Ch(text, colon) # 58
      THEN PErr("Expecting ':' delimiter", colon)
      ELSE IF ~val.ok THEN val
      ELSE IF after <= n - 1 /\ Ch(text, after) = 125
      THEN POk(dict2, after + 1)
      ELSE IF after > n - 1 \/ Ch(text, after) # 44
      THEN PErr("Expecting ',' delimiter", after)
      ELSE ParseMembers(text, SkipWs(text, after + 1), dict2)

\* _parse_array: the items from idx on
ParseItems(text, idx, items) ==
  LET n == Len(text)
      val == ScanOnce(text, idx)
      after == SkipWs(text, val.end)
      items2 == Append(items, val.v)
  IN  IF ~val.ok THEN val
      ELSE IF after <= n - 1 /\ Ch(text, after) = 93
      THEN POk(JList(items2), after + 1)
      ELSE IF after > n - 1 \/ Ch(text, after) # 44
      THEN PErr("Expecting ',' delimiter", after)
      ELSE ParseItems(text, SkipWs(text, after + 1), items2)

\* scan_once: the value at idx
ScanOnce(text, idx) ==
  LET n == Len(text)
      c == Ch(text, idx)
      w == SkipWs(text, idx + 1)
  IN  IF idx >= n THEN PErr("Expecting value", idx)
      ELSE IF c = 34 THEN ScanString(text, idx, idx + 1, "")
      ELSE IF c = 123
      THEN IF w <= n - 1 /\ Ch(text, w) = 125 THEN POk(EmptyDict, w + 1)
           ELSE ParseMembers(text, w, EmptyDict)
      ELSE IF c = 91
      THEN IF w <= n - 1 /\ Ch(text, w) = 93 THEN POk(JList(<< >>), w + 1)
           ELSE ParseItems(text, w, << >>)
      ELSE IF LiteralAt(text, idx, "null") THEN POk(JNull, idx + 4)
      ELSE IF LiteralAt(text, idx, "true") THEN POk(JBool(TRUE), idx + 4)
      ELSE IF LiteralAt(text, idx, "false") THEN POk(JBool(FALSE), idx + 5)
      ELSE IF LiteralAt(text, idx, "NaN") \/ LiteralAt(text, idx, "Infinity")
              \/ LiteralAt(text, idx, "-Infinity")
      THEN PUnmodelled
      ELSE MatchNumber(text, idx)

\* JSONDecodeError(msg, doc, pos)
JSONDecodeError(text, msg, pos) ==
  LET nl == {k \in 0..(pos - 1) : Ch(text, k) = 10}
      last == CHOOSE k \in nl : \A m \in nl : m <= k
      colno == IF nl = {} THEN pos + 1 ELSE pos - last
  IN  Raise("JSONDecodeError",
            msg \o ": line " \o IntStr(Cardinality(nl) + 1) \o " column "
            \o IntStr(colno) \o " (char " \o IntStr(pos) \o ")")

LoadsOk(v) == [ok |-> TRUE, v |-> v, err |-> NoError, unmodelled |-> FALSE]
LoadsErr(e) == [ok |-> FALSE, v |-> JNull, err |-> e, unmodelled |-> FALSE]
LoadsUnmodelled ==
  [ok |-> FALSE, v |-> JNull, err |-> NoError, unmodelled |-> TRUE]

\* json.loads of a str
\* JSONDecoder.decode on what raw_decode gave, end being where the white
\* space after the value ends
LoadsScanned(text, r, end) ==
  IF r.unmodelled THEN LoadsUnmodelled
  ELSE IF ~r.ok THEN LoadsErr(JSONDecodeError(text, r.msg, r.pos))
  ELSE IF end # Len(text)
  THEN LoadsErr(JSONDecodeError(text, "Extra data", end))
  ELSE LoadsOk(r.v)

LoadsValue(text, r) == LoadsScanned(text, r, SkipWs(text, r.end))

\* json.loads of a str
json_loads(text) ==
  IF Len(text) > 0 /\ text[1] = 65279
  THEN LoadsErr(JSONDecodeError(text,
                  "Unexpected UTF-8 BOM (decode using utf-8-sig)", 0))
  ELSE LoadsValue(text, ScanOnce(text, SkipWs(text, 0)))

(***************************************************************************)
(* binary_to_decimal (lines 53-84)                                         *)
(***************************************************************************)
Prec == 1000

IsBit(c) == c = "0" \/ c = "1"

RECURSIVE BitsRange(_, _, _)
\* The characters lo..hi of the run but for its underscores
BitsRange(run, lo, hi) ==
  IF lo > hi THEN ""
  ELSE IF lo = hi THEN (IF At(run, lo) = "_" THEN "" ELSE At(run, lo))
  ELSE LET mid == (lo + hi) \div 2
           left == BitsRange(run, lo, mid)
       IN  IF Len(left) < 0 THEN left
           ELSE left \o BitsRange(run, mid + 1, hi)

RECURSIVE SmallValue(_)
\* The number that a few bits are in base 2
SmallValue(bits) ==
  IF bits = "" THEN 0
  ELSE 2 * SmallValue(SubSeq(bits, 1, Len(bits) - 1))
       + (IF At(bits, Len(bits)) = "1" THEN 1 ELSE 0)

RECURSIVE MulRange(_, _, _, _, _)
\* <<carry out, digits lo..hi>> of the digits d times m, with the carry cin
\* coming in at hi (the least significant end)
MulRange(d, lo, hi, m, cin) ==
  IF lo = hi
  THEN <<(d[lo] * m + cin) \div 10, (d[lo] * m + cin) % 10>>
  ELSE LET mid == (lo + hi) \div 2
           R == MulRange(d, mid + 1, hi, m, cin)
       IN  IF Len(R) = 0 THEN R
           ELSE MulRange(d, lo, mid, m, R[1]) \o Tail(R)

\* The digits that a carry and the digits after it are
MulJoin(R) == StripLeading(DigitsOfInt(R[1]) \o Tail(R))

\* The digits of d * m + a
MulAdd(d, m, a) == MulJoin(MulRange(d, 1, Len(d), m, a))

\* The twenty bits from i on, or those that are left
Twenty(bits, i) ==
  SubSeq(bits, i, IF i + 19 > Len(bits) THEN Len(bits) ELSE i + 19)

\* An int of Python has no bound, so the model keeps it as its decimal
\* digits and reads the bits twenty at a time: the number so far times
\* 2^20, plus the number that the twenty bits are
BinStep(bits, st) ==
  [i |-> st.i + 20,
   digits |-> MulAdd(st.digits, Pow2(Len(Twenty(bits, st.i))),
                     SmallValue(Twenty(bits, st.i)))]

RECURSIVE BinRun(_, _, _)
\* n steps from st on, the count halved at each level
BinRun(bits, st, n) ==
  IF n <= 0 THEN st
  ELSE IF n = 1 THEN BinStep(bits, st)
  ELSE LET half == BinRun(bits, st, n \div 2)
       IN  IF half.i < 0 THEN half ELSE BinRun(bits, half, n - (n \div 2))

\* The decimal digits of the number that the bits are in base 2
BinOfBits(bits) ==
  BinRun(bits, [i |-> 1, digits |-> <<0>>], (Len(bits) + 19) \div 20).digits

\* The same for a run of bits with underscores among them
BinDigits(run) == BinOfBits(BitsRange(run, 1, Len(run)))

\* The white space int() strips, of the known characters
Spaces == {" ", "\t", "\n", "\r", "\f"}

\* The first index from lo on whose character is not in chars, or
\* Len(text) + 1
SkipChars(text, lo, chars) ==
  IF \A i \in lo..Len(text) : At(text, i) \in chars THEN Len(text) + 1
  ELSE CHOOSE i \in lo..Len(text) :
         /\ At(text, i) \notin chars
         /\ \A j \in lo..(i - 1) : At(text, j) \in chars

\* The message of int(): the repr of the argument, cut at 200 characters
ReprLimit == 200

InvalidLiteral(int_part) ==
  LET r == ReprStr(int_part)
  IN  Raise("ValueError",
            "invalid literal for int() with base 2: "
            \o (IF Len(r) > ReprLimit THEN SubSeq(r, 1, ReprLimit) ELSE r))

\* What int() gives: the int as its sign (1: below zero) and the decimal
\* digits of its magnitude, or the exception
IntOk(negative, digits) ==
  [ok |-> TRUE, sign |-> IF negative /\ digits # <<0>> THEN 1 ELSE 0,
   digits |-> digits, err |-> NoError, unmodelled |-> FALSE]
IntErr(e) == [ok |-> FALSE, sign |-> 0, digits |-> <<0>>, err |-> e,
              unmodelled |-> FALSE]
IntUnmodelled == [ok |-> FALSE, sign |-> 0, digits |-> <<0>>, err |-> NoError,
                  unmodelled |-> TRUE]

\* Whether the character at index i of text is c
CharIs(text, i, c) == i <= Len(text) /\ At(text, i) = c

\* Bits with single underscores between them
RunOk(run) ==
  /\ run # ""
  /\ At(run, 1) # "_"
  /\ At(run, Len(run)) # "_"
  /\ \A i \in 1..(Len(run) - 1) : ~(At(run, i) = "_" /\ At(run, i + 1) = "_")

\* The digits run, then white space up to index end: nothing may follow
ParseEnd(int_part, negative, run, end) ==
  IF RunOk(run) /\ end = Len(int_part) + 1
  THEN IntOk(negative, BinDigits(run))
  ELSE IntErr(InvalidLiteral(int_part))

\* The digits lie between the indices start and stop
ParseRun(int_part, negative, start, stop) ==
  ParseEnd(int_part, negative, SubSeq(int_part, start, stop - 1),
           SkipChars(int_part, stop, Spaces))

\* The digits begin at index start
ParseDigits(int_part, negative, start) ==
  ParseRun(int_part, negative, start,
           SkipChars(int_part, start, {"0", "1", "_"}))

\* A 0b or 0B at index prefix is passed over, and one underscore after it
ParsePrefixed(int_part, negative, prefix) ==
  ParseDigits(int_part, negative,
              IF CharIs(int_part, prefix, "0")
                 /\ (CharIs(int_part, prefix + 1, "b")
                     \/ CharIs(int_part, prefix + 1, "B"))
              THEN IF CharIs(int_part, prefix + 2, "_") THEN prefix + 3
                   ELSE prefix + 2
              ELSE prefix)

\* A sign at index sign is passed over
ParseSigned(int_part, sign) ==
  ParsePrefixed(int_part, CharIs(int_part, sign, "-"),
                IF CharIs(int_part, sign, "-") \/ CharIs(int_part, sign, "+")
                THEN sign + 1 ELSE sign)

\* int(int_part, 2) for an int_part of known characters: white space
\* around, a sign, a 0b or 0B prefix, then bits with single underscores
\* between them (one may follow the prefix)
ParseBinInt(int_part) ==
  IF ~TextModelled(int_part) THEN IntUnmodelled
  ELSE ParseSigned(int_part, SkipChars(int_part, 1, Spaces))

\* A loop that counts the positions from 0 (enumerate without its start)
OnePositionsFromZero(frac_part) ==
  LET S == {i \in 0..(Len(frac_part) - 1) : At(frac_part, i + 1) = "1"}
  IN  [k \in 1..Cardinality(S) |->
         CHOOSE i \in S : Cardinality({j \in S : j < i}) = k - 1]

\* The 1-based positions of the '1' bits of frac_part, in increasing order
OnePositions(frac_part) ==
  LET S == {i \in 1..Len(frac_part) : At(frac_part, i) = "1"}
  IN  [k \in 1..Cardinality(S) |->
         CHOOSE i \in S : Cardinality({j \in S : j < i}) = k - 1]

\* One turn of the loop of lines 79-81 for the '1' bit at position i:
\* frac_value += Decimal(2) ** (-i).  The digits of 5^i are carried from one
\* turn to the next (5^i = 5^j * 5^(i-j)) instead of being computed anew.
FracStep(st, i, prec) ==
  LET p5 == Times5N(st.p5, i - st.i)
  IN  [i |-> i, p5 |-> p5,
       frac_value |-> DecAdd(st.frac_value, Fix(Dec(0, p5, -i), prec), prec)]

RECURSIVE FracLoopRange(_, _, _, _, _)
\* The turns for ones[lo..hi], in order
FracLoopRange(ones, lo, hi, st, prec) ==
  IF lo > hi THEN st
  ELSE IF lo = hi THEN FracStep(st, ones[lo], prec)
  ELSE LET mid == (lo + hi) \div 2
           L == FracLoopRange(ones, lo, mid, st, prec)
       IN  IF L.i < 0 THEN L
           ELSE FracLoopRange(ones, mid + 1, hi, L, prec)

\* Lines 78-81: frac_value after the loop over frac_part
FracLoop(frac_part, prec) ==
  LET ones == OnePositions(frac_part)
  IN  FracLoopRange(ones, 1, Len(ones),
                    [i |-> 0, p5 |-> <<1>>, frac_value |-> DecZero],
                    prec).frac_value

B2dOk(x) == [ok |-> TRUE, value |-> x, err |-> NoError, unmodelled |-> FALSE]
B2dErr(e) == [ok |-> FALSE, value |-> DecZero, err |-> e, unmodelled |-> FALSE]
B2dUnmodelled ==
  [ok |-> FALSE, value |-> DecZero, err |-> NoError, unmodelled |-> TRUE]

\* Line 74: Decimal(int(int_part, 2)) if int_part else Decimal(0)
IntDecimal(int_part, parsed) ==
  IF int_part = "" THEN DecZero
  ELSE Dec(parsed.sign, parsed.digits, 0)

\* Lines 77-82: the fractional value added to result
WithFraction(result, frac_part, prec) ==
  IF frac_part # "" THEN DecAdd(result, FracLoop(frac_part, prec), prec)
  ELSE result

\* Line 84
Signed(negative, result, prec) ==
  IF negative THEN DecNeg(result, prec) ELSE result

\* Lines 74-84 on what int() gave for an int_part that is not empty
ConvertParsed(negative, int_part, frac_part, parsed, prec) ==
  IF int_part # "" /\ parsed.unmodelled THEN B2dUnmodelled
  ELSE IF int_part # "" /\ ~parsed.ok THEN B2dErr(parsed.err)
  ELSE B2dOk(Signed(negative,
                    WithFraction(IntDecimal(int_part, parsed), frac_part, prec),
                    prec))

\* Lines 74-84
ConvertParts(negative, int_part, frac_part, prec) ==
  ConvertParsed(negative, int_part, frac_part, ParseBinInt(int_part), prec)

\* Lines 67-84: body is binary_str without its sign, dot the index of its
\* first '.' (0: none)
ConvertBody(negative, body, dot, prec) ==
  ConvertParts(negative,
               IF dot > 0 THEN SubSeq(body, 1, dot - 1) ELSE body,
               IF dot > 0 THEN SubSeq(body, dot + 1, Len(body)) ELSE "",
               prec)

\* Lines 66-84: body is binary_str without its sign
ConvertUnsigned(negative, body, prec) ==
  ConvertBody(negative, body, Find(body, "."), prec)

\* Lines 62-84, for a string binary_str that is not empty
ConvertString(str, prec) ==
  ConvertUnsigned(startswith(str, "-"),
                  IF startswith(str, "-") THEN SubSeq(str, 2, Len(str)) ELSE str,
                  prec)

\* binary_to_decimal(binary_str) for any Python value binary_str, under the
\* precision prec that line 56 has just set
binary_to_decimal(binary_str, prec) ==
  IF ~Truthy(binary_str) THEN B2dOk(DecZero)
  ELSE IF binary_str.t # "str"
  THEN B2dErr(AttributeError(binary_str, "startswith"))
  ELSE ConvertString(binary_str.s, prec)

(***************************************************************************)
(* str(Decimal) and format(Decimal, ".50E")                                *)
(***************************************************************************)
RECURSIVE DigitsStrRange(_, _, _)
DigitsStrRange(d, lo, hi) ==
  IF lo > hi THEN ""
  ELSE IF lo = hi THEN At(DigitChars, d[lo] + 1)
  ELSE LET mid == (lo + hi) \div 2
       IN  DigitsStrRange(d, lo, mid) \o DigitsStrRange(d, mid + 1, hi)

\* The digits as text
DigitsStr(d) == DigitsStrRange(d, 1, Len(d))

\* "%+d" % n
SignedStr(n) == IF n < 0 THEN IntStr(n) ELSE "+" \o IntStr(n)

\* Decimal.__str__: plain notation when exp <= 0 and the value has fewer
\* than six zeros after the point, else d.dddE+n
DecStr(x) ==
  LET n == Len(x.int)
      digits == DigitsStr(x.int)
      leftdigits == x.exp + n
      dotplace == IF x.exp <= 0 /\ leftdigits > -6 THEN leftdigits ELSE 1
      intpart == IF dotplace <= 0 THEN "0"
                 ELSE IF dotplace >= n
                 THEN digits \o Repeat("0", dotplace - n)
                 ELSE SubSeq(digits, 1, dotplace)
      fracpart == IF dotplace <= 0
                  THEN "." \o Repeat("0", -dotplace) \o digits
                  ELSE IF dotplace >= n THEN ""
                  ELSE "." \o SubSeq(digits, dotplace + 1, n)
      exptext == IF leftdigits = dotplace THEN ""
                 ELSE "E" \o SignedStr(leftdigits - dotplace)
  IN  (IF x.sign = 1 THEN "-" ELSE "") \o intpart \o fracpart \o exptext

MantissaDigits == 50

\* format(x, ".50E") for a nonzero x: the coefficient rounded half-even to
\* 51 digits, or filled with zeros up to 51
DecFormatE(x) ==
  LET r == Fix(x, MantissaDigits + 1)
      digits == DigitsStr(r.int)
            \o Repeat("0", MantissaDigits + 1 - Len(r.int))
  IN  (IF x.sign = 1 THEN "-" ELSE "")
      \o SubSeq(digits, 1, 1) \o "." \o SubSeq(digits, 2, MantissaDigits + 1)
      \o "E" \o SignedStr(Adjusted(r))

(***************************************************************************)
(* format_bigfloat (lines 87-96)                                           *)
(***************************************************************************)
DisplayWidth == 80

Truncate(text) ==
  IF Len(text) > DisplayWidth THEN SubSeq(text, 1, DisplayWidth) ELSE text

\* Line 93: abs(decimal_value) < Decimal("1e-10") and decimal_value != 0
VerySmall(decimal_value, prec) ==
  LessThan1em10(DecAbs(decimal_value, prec)) /\ ~IsZero(decimal_value)

\* Lines 93-95
RenderDecimal(decimal_value, prec) ==
  IF VerySmall(decimal_value, prec)
  THEN DecFormatE(decimal_value)
  ELSE Truncate(DecStr(decimal_value))

IsBigFloat(bf) == IsDict(bf) /\ HasKey(bf, "value")

FmtOk(text) == [ok |-> TRUE, text |-> text, err |-> NoError,
                unmodelled |-> FALSE]
FmtErr(e) == [ok |-> FALSE, text |-> "", err |-> e, unmodelled |-> FALSE]
FmtUnmodelled == [ok |-> FALSE, text |-> "", err |-> NoError,
                  unmodelled |-> TRUE]

\* Lines 92-95 on what line 91 gave: decimal_value, or the exception
RenderConverted(conv, prec) ==
  IF conv.unmodelled THEN FmtUnmodelled
  ELSE IF conv.ok THEN FmtOk(RenderDecimal(conv.value, prec))
  ELSE FmtErr(conv.err)

format_bigfloat(bf, prec) ==
  IF ~ReprModelled(bf) THEN FmtUnmodelled
  ELSE IF IsBigFloat(bf)
  THEN RenderConverted(binary_to_decimal(Item(bf, "value"), prec), prec)
  ELSE FmtOk(PyStr(bf))

(***************************************************************************)
(* format_viewport (lines 99-153)                                          *)
(***************************************************************************)
ValOk(v) == [ok |-> TRUE, value |-> v, err |-> NoError]
ValErr(e) == [ok |-> FALSE, value |-> JNull, err |-> e]

\* v.get(k, default): only a dict has the method
PyGet(v, k, default) ==
  IF IsDict(v) THEN ValOk(Get(v, k, default))
  ELSE ValErr(AttributeError(v, "get"))

\* v[idx] for idx 0 or 1 (lines 112-113)
Subscript(v, idx) ==
  CASE v.t = "list" ->
         IF idx < Len(v.items) THEN ValOk(v.items[idx + 1])
         ELSE ValErr(Raise("IndexError", "list index out of range"))
    [] v.t = "str" ->
         IF idx < Len(v.s) THEN ValOk(JStr(At(v.s, idx + 1)))
         ELSE ValErr(Raise("IndexError", "string index out of range"))
    [] v.t = "dict" -> ValErr(Raise("KeyError", IntStr(idx)))
    [] OTHER -> ValErr(Raise("TypeError",
                  "'" \o TypeName(v) \o "' object is not subscriptable"))

Rule == Repeat("=", 60)

\* binary_value.split(".")[1]: what lies between the first '.' and the next
SplitSecond(binary_value) ==
  LET after == SubSeq(binary_value, Find(binary_value, ".") + 1,
                      Len(binary_value))
      next == Find(after, ".")
  IN  IF next = 0 THEN after ELSE SubSeq(after, 1, next - 1)

\* len(frac_part) - len(frac_part.lstrip("0"))
LeadingZeros(frac_part) ==
  LET other == {i \in 1..Len(frac_part) : At(frac_part, i) # "0"}
  IN  IF other = {} THEN Len(frac_part)
      ELSE (CHOOSE i \in other : \A j \in other : i <= j) - 1

\* An estimate rounded to the nearest integer instead of cut
ZoomDepthRounded(leading_zeros) == (leading_zeros * 301 + 500) \div 1000

\* int(leading_zeros * 0.301): the double product truncated, which is
\* floor(301 * leading_zeros / 1000) for every count below two million
ZoomDepth(leading_zeros) == (leading_zeros * 301) \div 1000

ZoomNone == [lines |-> "", err |-> NoError]
ZoomRaise(e) == [lines |-> "", err |-> e]

\* The body of the try block (lines 119-129): the lines it appends, or the
\* exception it raises
ZoomBody(viewport) ==
  LET width_data == Get(viewport, "width", EmptyDict)
  IN  IF ~(IsDict(width_data) /\ HasKey(width_data, "value")) THEN ZoomNone
      ELSE LET binary_value == Item(width_data, "value")
           IN  CASE binary_value.t = "str" ->
                      IF Contains(binary_value.s, ".")
                      THEN LET leading_zeros ==
                                 LeadingZeros(SplitSecond(binary_value.s))
                           IN  [lines |->
                                  "\n  Zoom Depth: ~10^"
                                  \o IntStr(ZoomDepth(leading_zeros))
                                  \o " (2^" \o IntStr(leading_zeros) \o ")"
                                  \o "\n  Precision:  "
                                  \o PyStr(Get(width_data, "precision_bits",
                                               JStr("N/A")))
                                  \o " bits",
                                err |-> NoError]
                      ELSE ZoomNone
                 [] binary_value.t = "list" ->
                      IF \E k \in 1..Len(binary_value.items) :
                           binary_value.items[k] = JStr(".")
                      THEN ZoomRaise(AttributeError(binary_value, "split"))
                      ELSE ZoomNone
                 [] binary_value.t = "dict" ->
                      IF HasKey(binary_value, ".")
                      THEN ZoomRaise(AttributeError(binary_value, "split"))
                      ELSE ZoomNone
                 [] OTHER ->
                      ZoomRaise(Raise("TypeError", "argument of type '"
                        \o TypeName(binary_value) \o "' is not iterable"))

\* except (ValueError, IndexError, TypeError): pass  (lines 130-131)
Swallowed == {"ValueError", "IndexError", "TypeError"}

\* Lines 118-131: the zoom lines, nothing after a swallowed exception, or the
\* exception the except clause lets through
ZoomStep(viewport) ==
  LET z == ZoomBody(viewport)
  IN  IF z.err.cls \in Swallowed THEN ZoomNone ELSE z

\* A character of a JSON string literal as json.dumps writes it
\* (ensure_ascii: a character above '~' as \uXXXX)
DumpChar(c) ==
  CASE c = "\"" -> "\\\""
    [] c = "\\" -> "\\\\"
    [] c = "\n" -> "\\n"
    [] c = "\r" -> "\\r"
    [] c = "\t" -> "\\t"
    [] c = "\f" -> "\\f"
    [] IsLatin1(c) -> "\\u00" \o Hex2(Latin1Code(c))
    [] OTHER -> c

RECURSIVE DumpRange(_, _, _)
DumpRange(text, lo, hi) ==
  IF lo > hi THEN ""
  ELSE IF lo = hi THEN DumpChar(At(text, lo))
  ELSE LET mid == (lo + hi) \div 2
           left == DumpRange(text, lo, mid)
       IN  IF Len(left) < 0 THEN left
           ELSE left \o DumpRange(text, mid + 1, hi)

\* The body of a JSON string literal
DumpStr(text) == DumpRange(text, 1, Len(text))

RECURSIVE JsonDumps(_, _)
RECURSIVE DumpItems(_, _, _)
RECURSIVE DumpPairs(_, _, _)
\* json.dumps(v, indent=2) at nesting depth level
JsonDumps(v, level) ==
  CASE v.t = "null" -> "null"
    [] v.t = "bool" -> IF v.b THEN "true" ELSE "false"
    [] v.t = "int" -> IntStr(v.n)
    [] v.t = "str" -> "\"" \o DumpStr(v.s) \o "\""
    [] v.t = "list" ->
         IF Len(v.items) = 0 THEN "[]"
         ELSE "[" \o DumpItems(v.items, 1, level + 1)
              \o "\n" \o Repeat(" ", 2 * level) \o "]"
    [] OTHER ->
         IF Len(v.pairs) = 0 THEN "{}"
         ELSE "{" \o DumpPairs(v.pairs, 1, level + 1)
              \o "\n" \o Repeat(" ", 2 * level) \o "}"

DumpItems(items, i, level) ==
  IF i > Len(items) THEN ""
  ELSE "\n" \o Repeat(" ", 2 * level) \o JsonDumps(items[i], level)
       \o (IF i < Len(items) THEN "," ELSE "")
       \o DumpItems(items, i + 1, level)

\* The members of an object, in their order
DumpPairs(pairs, i, level) ==
  IF i > Len(pairs) THEN ""
  ELSE "\n" \o Repeat(" ", 2 * level)
       \o "\"" \o DumpStr(pairs[i].k) \o "\": "
       \o JsonDumps(pairs[i].v, level)
       \o (IF i < Len(pairs) THEN "," ELSE "")
       \o DumpPairs(pairs, i + 1, level)

\* Lines 134-137
ConfigLines(state) ==
  "\n\nCONFIG:"
  \o "\n  Config ID:    " \o PyStr(Get(state, "config_id", JStr("unknown")))
  \o "\n  Palette:      " \o PyStr(Get(state, "palette_name", JStr("unknown")))
  \o "\n  Version:      " \o PyStr(Get(state, "version", JStr("unknown")))

\* Lines 140-145: the section of a truthy render_settings
RenderLines(state) ==
  LET render == Get(state, "render_settings", EmptyDict)
  IN  IF ~Truthy(render) THEN FmtOk("")
      ELSE IF ~IsDict(render) THEN FmtErr(AttributeError(render, "get"))
      ELSE FmtOk(
        "\n\nRENDER SETTINGS:"
        \o "\n  Cycle Count:  " \o PyStr(Get(render, "cycle_count", JStr("N/A")))
        \o "\n  Use GPU:      " \o PyStr(Get(render, "use_gpu", JStr("N/A")))
        \o "\n  X-Ray:        " \o PyStr(Get(render, "xray_enabled", JStr("N/A"))))

\* Lines 147-151
RawLines(state, show_raw) ==
  IF show_raw
  THEN "\n\n" \o Rule \o "\nRAW JSON:\n" \o Rule \o "\n" \o JsonDumps(state, 0)
  ELSE ""

\* Lines 103-105 and 111
HeadLines == Rule \o "\nFRACTALWONDER STATE\n" \o Rule \o "\n\nVIEWPORT:"

\* Lines 108-115: what the four calls of format_bigfloat are given, in the
\* order of the calls, or the exception that comes before a call
NumberArgs(viewport, center) ==
  <<Subscript(center, 0), Subscript(center, 1),
    ValOk(Get(viewport, "width", JNull)), ValOk(Get(viewport, "height", JNull))>>

\* The outcomes of the four lines, each in its turn
NumberTexts(args, prec) ==
  [i \in 1..4 |-> IF args[i].ok THEN format_bigfloat(args[i].value, prec)
                  ELSE FmtErr(args[i].err)]

\* The four lines, or the exception of the first line that raises
JoinNumbers(texts) ==
  IF \E i \in 1..4 : ~texts[i].ok
  THEN texts[CHOOSE i \in 1..4 : ~texts[i].ok /\ \A j \in 1..(i - 1) : texts[j].ok]
  ELSE FmtOk("\n  Center X:  " \o texts[1].text
             \o "\n  Center Y:  " \o texts[2].text
             \o "\n  Width:     " \o texts[3].text
             \o "\n  Height:    " \o texts[4].text)

\* Line 109 and on, viewport being what line 108 gave
NumbersOf(viewport, prec) ==
  IF ~IsDict(viewport) THEN FmtErr(AttributeError(viewport, "get"))
  ELSE JoinNumbers(NumberTexts(
         NumberArgs(viewport, Get(viewport, "center", JList(<<JNull, JNull>>))),
         prec))

\* Lines 108-115
NumberLines(state, prec) ==
  IF ~IsDict(state) THEN FmtErr(AttributeError(state, "get"))
  ELSE NumbersOf(Get(state, "viewport", EmptyDict), prec)

\* The report from its parts, or the first exception
Report(numbers, zoom, render, rest) ==
  IF ~numbers.ok THEN numbers
  ELSE IF zoom.err # NoError THEN FmtErr(zoom.err)
  ELSE IF ~render.ok THEN render
  ELSE FmtOk(HeadLines \o numbers.text \o zoom.lines \o rest[1]
             \o render.text \o rest[2])

format_viewport(state, show_raw, prec) ==
  IF ~ReprModelled(state) THEN FmtUnmodelled
  ELSE Report(NumberLines(state, prec),
              ZoomStep(Get(state, "viewport", EmptyDict)),
              RenderLines(state),
              <<ConfigLines(state), RawLines(state, show_raw)>>)

(***************************************************************************)
(* decode_fractalwonder_url (lines 23-50) as one function: the document,   *)
(* or the exception of the first line that raises, with the stage it       *)
(* belongs to                                                              *)
(***************************************************************************)
DecodeOk(doc) == [ok |-> TRUE, doc |-> doc, err |-> NoError,
                  stage |-> "parse", unmodelled |-> FALSE]
DecodeErr(e, stage) == [ok |-> FALSE, doc |-> JNull, err |-> e,
                        stage |-> stage, unmodelled |-> FALSE]
DecodeUnmodelled == [ok |-> FALSE, doc |-> JNull, err |-> NoError,
                     stage |-> "", unmodelled |-> TRUE]

\* Line 50: json.loads(decompressed.decode("utf-8"))
\* Line 50 on what .decode('utf-8') gave
LoadsDecoded(text) ==
  IF ~text.ok THEN LoadsErr(text.err) ELSE json_loads(text.text)

ParseDocument(decompressed) == LoadsDecoded(utf8_decode(decompressed))

\* Line 50
DecodeParsed(parsed) ==
  CASE parsed.unmodelled -> DecodeUnmodelled
    [] ~parsed.ok -> DecodeErr(parsed.err, "parse")
    [] OTHER -> DecodeOk(parsed.v)

\* Line 47 and on
DecodeInflated(inflated) ==
  CASE inflated.unmodelled -> DecodeUnmodelled
    [] ~inflated.ok -> DecodeErr(inflated.err, "inflate")
    [] OTHER -> DecodeParsed(ParseDocument(inflated.data))

\* Lines 40-44 and on
DecodeBytes(b64) ==
  IF ~b64.ok THEN DecodeErr(b64.err, "base64")
  ELSE DecodeInflated(zlib_decompress(b64.data))

\* Lines 33-36 and on
DecodeHash(hash_data) ==
  IF ~HasMarker(hash_data)
  THEN DecodeErr(Raise("ValueError", FormatErrorMsg), "marker")
  ELSE DecodeBytes(urlsafe_b64decode(Repad(StripMarker(hash_data))))

\* Lines 26-30 and on
DecodeExtracted(extract) ==
  CASE extract.unmodelled -> DecodeUnmodelled
    [] ~extract.ok -> DecodeErr(extract.err, "extract")
    [] OTHER -> DecodeHash(extract.fragment)

decode_fractalwonder_url(url_or_hash) ==
  DecodeExtracted(ExtractHash(url_or_hash))

(***************************************************************************)
(* The external encoder, the inverse of the decoder: the document as       *)
(* compact JSON text, its bytes compressed as one raw-DEFLATE block of     *)
(* fixed-Huffman literals, and the bytes written as URL-safe base64        *)
(* without padding behind the marker.                                      *)
(***************************************************************************)
Ord(ch) == CHOOSE c \in 32..126 : Chr(c) = ch

RECURSIVE Serialize(_)
RECURSIVE SerializeItems(_, _)
RECURSIVE SerializeMembers(_, _)
Serialize(v) ==
  CASE v.t = "null" -> "null"
    [] v.t = "bool" -> IF v.b THEN "true" ELSE "false"
    [] v.t = "int" -> IntStr(v.n)
    [] v.t = "str" -> "\"" \o DumpStr(v.s) \o "\""
    [] v.t = "list" -> "[" \o SerializeItems(v.items, 1) \o "]"
    [] OTHER -> "{" \o SerializeMembers(v.pairs, 1) \o "}"

SerializeItems(items, i) ==
  IF i > Len(items) THEN ""
  ELSE Serialize(items[i]) \o (IF i < Len(items) THEN "," ELSE "")
       \o SerializeItems(items, i + 1)

SerializeMembers(pairs, i) ==
  IF i > Len(pairs) THEN ""
  ELSE "\"" \o DumpStr(pairs[i].k) \o "\":" \o Serialize(pairs[i].v)
       \o (IF i < Len(pairs) THEN "," ELSE "")
       \o SerializeMembers(pairs, i + 1)

\* The bytes of an ASCII text
AsciiBytes(text) == [i \in 1..Len(text) |-> Ord(At(text, i))]

\* The n bits of code, most significant first
CodeBits(code, n) == [i \in 1..n |-> (code \div Pow2(n - i)) % 2]

\* The fixed-Huffman code of a literal byte (RFC 1951, 3.2.6)
LiteralBits(b) ==
  IF b < 144 THEN CodeBits(48 + b, 8) ELSE CodeBits(400 + (b - 144), 9)

RECURSIVE LiteralStream(_, _, _)
\* The codes of the bytes lo..hi of data, one after the other
LiteralStream(data, lo, hi) ==
  IF lo > hi THEN << >>
  ELSE IF lo = hi THEN LiteralBits(data[lo])
  ELSE LET mid == (lo + hi) \div 2
           left == LiteralStream(data, lo, mid)
       IN  IF Len(left) < 0 THEN left
           ELSE left \o LiteralStream(data, mid + 1, hi)

\* A bit stream packed into bytes, the first bit in the lowest position
PackBits(bits) ==
  LET n == (Len(bits) + 7) \div 8
      bit(j) == IF j <= Len(bits) THEN bits[j] ELSE 0
      byte(k) == bit(8 * k + 1) + 2 * bit(8 * k + 2) + 4 * bit(8 * k + 3)
                 + 8 * bit(8 * k + 4) + 16 * bit(8 * k + 5)
                 + 32 * bit(8 * k + 6) + 64 * bit(8 * k + 7)
                 + 128 * bit(8 * k + 8)
  IN  [k \in 1..n |-> byte(k - 1)]

\* One final block of type 1: the literals, then the end-of-block code
Deflate(data) ==
  PackBits(<<1, 1, 0>> \o LiteralStream(data, 1, Len(data)) \o CodeBits(0, 7))

B64Url == "ABCDEFGHIJKLMNOPQRSTUVWXYZabcdefghijklmnopqrstuvwxyz0123456789-_"

\* The characters of the group of up to three bytes that starts at byte i
B64Group(data, i) ==
  LET left == Len(data) - i + 1
      b(k) == IF i + k <= Len(data) THEN data[i + k] ELSE 0
      n == b(0) * 65536 + b(1) * 256 + b(2)
      ch(k) == At(B64Url, ((n \div Pow2(18 - 6 * k)) % 64) + 1)
  IN  IF left = 1 THEN ch(0) \o ch(1)
      ELSE IF left = 2 THEN ch(0) \o ch(1) \o ch(2)
      ELSE ch(0) \o ch(1) \o ch(2) \o ch(3)

RECURSIVE B64Groups(_, _, _)
\* The groups lo..hi of data, group g starting at byte 3g - 2
B64Groups(data, lo, hi) ==
  IF lo > hi THEN ""
  ELSE IF lo = hi THEN B64Group(data, 3 * lo - 2)
  ELSE LET mid == (lo + hi) \div 2
           left == B64Groups(data, lo, mid)
       IN  IF Len(left) < 0 THEN left
           ELSE left \o B64Groups(data, mid + 1, hi)

B64EncodeNoPad(data) == B64Groups(data, 1, (Len(data) + 2) \div 3)

TokenOfBytes(data) == "v1:" \o B64EncodeNoPad(data)

Encode(doc) == TokenOfBytes(Deflate(AsciiBytes(Serialize(doc))))

(***************************************************************************)
(* The inputs of the model                                                 *)
(***************************************************************************)
MaxPayload == 3
MaxBytes == 3
MaxFracBits == 3
HugeBits == 3400
TinyBits == 1430
MaxZoom == 197

RECURSIVE Strings(_, _)
\* The strings over chars of length at most n
Strings(chars, n) ==
  IF n = 0 THEN {""}
  ELSE LET shorter == Strings(chars, n - 1)
       IN  shorter \cup {s \o c : s \in shorter, c \in chars}

RECURSIVE ByteSeqs(_, _)
ByteSeqs(values, n) ==
  IF n = 0 THEN {<< >>}
  ELSE LET shorter == ByteSeqs(values, n - 1)
       IN  shorter \cup {Append(b, v) : b \in shorter, v \in values}

PayloadChars == {"M", "w", "A", "-", "!", "="}
ByteValues == {0, 3, 171, 255}

\* Tokens with and without the marker, and the ways to hand one over
Tokens ==
  {"", "v1", "v1:", "v2:AAA", "V1:q64FAA", "v1:q64FAA", "1:q64FAA",
   "v1:!!!invalid!!!", "v1:q64F!AA", "v1:q64FAA==zzzz", "v1:é", "v1:AQAA__8",
   "v1:AwA", "v1:i44FAA", "v1:U0pUAgA", "v1:q1ZKVLJSMKwFAA"}

Wrappers == {"", "http://x/#", "https://x/", "https://x/#a#", "http://[x/#",
             "http://[x]/#", "HTTP://x/#", "https://x/?q#", "https://x/#\t"}

BF(bits) == JDict(Single("value", JStr(bits)))

\* Documents handed to the external encoder
Documents ==
  {EmptyDict, JList(<< >>), JNull, JInt(0), JStr("a"), JBool(TRUE),
   JDict(Single("version", JInt(1))),
   With(JDict(Single("config_id", JStr("m"))), "version", JInt(2)),
   JList(<<JInt(1), JList(<<JInt(-2), JDict(Single("x", JNull))>>)>>),
   JDict(Single("viewport", JDict(Single("width", BF("0.01")))))}

Untracked == [kind |-> "raw", bytes |-> << >>, doc |-> JNull]

\* What a decode call is given: the text, and where the text came from
DecodeCandidates ==
  {[url |-> "v1:" \o p, src |-> Untracked] :
      p \in Strings(PayloadChars, MaxPayload)}
  \cup {[url |-> w \o t, src |-> Untracked] : w \in Wrappers, t \in Tokens}
  \cup {[url |-> w \o TokenOfBytes(b),
         src |-> [kind |-> "bytes", bytes |-> b, doc |-> JNull]] :
          w \in {"", "https://x/#"}, b \in ByteSeqs(ByteValues, MaxBytes)}
  \cup {[url |-> w \o Encode(d),
         src |-> [kind |-> "doc", bytes |-> << >>, doc |-> d]] :
          w \in {"", "https://x/#"}, d \in Documents}
  \cup {[url |-> "v1:q1Yqy0wtL8gvKlGyqlYqz0wpyQAxyhJzSlOVrJQM9AwMlWprawE",
         src |-> [kind |-> "doc", bytes |-> << >>,
                  doc |-> JDict(Single("viewport",
                            JDict(Single("width", BF("0.01")))))]]}

DecodeInputs ==
  {c \in DecodeCandidates : ~decode_fractalwonder_url(c.url).unmodelled}

\* Binary-fraction strings: a sign, integer bits, and every fractional part
\* of up to MaxFracBits bits
ShortBinary ==
  {sg \o ip \o fp : sg \in {"", "-"}, ip \in {"", "0", "1", "101"},
                    fp \in {""} \cup {"." \o f :
                                        f \in Strings({"0", "1"}, MaxFracBits)}}

\* Small values, around the 10^-10 threshold of the renderer
SmallBinary ==
  {"0." \o Repeat("0", k) \o "1" : k \in {19, 32, 33, 34, 90, 280}}
  \cup {"-0." \o Repeat("0", 33) \o "11", "1.0.1", "0.1.1"}

\* Long fractional parts, around the working precision of the converter
LongBinary ==
  {ip \o "." \o lead \o Repeat("0", k) \o "1" :
     ip \in {"", "1"}, lead \in {"", "1"}, k \in {Prec - 2, Prec - 1}}

\* Integers of HugeBits bits, which have more than Prec decimal digits, with
\* and without a sign and a fractional part; the powers of two around Prec
\* significant digits (2^-TinyBits has Prec of them); integer parts beyond
\* 32 and 64 bits
HugeBinary ==
  {"1" \o Repeat("0", HugeBits - 1) \o fp : fp \in {"", ".", ".0", ".1"}}
  \cup {"-1" \o Repeat("0", HugeBits - 1)}
  \cup {"0." \o Repeat("0", k - 1) \o "1" : k \in {TinyBits, TinyBits + 1}}
  \cup {Repeat("1", HugeBits), Repeat("1", 40) \o ".101",
        "-" \o Repeat("1", 64), "1" \o Repeat("0", 31) \o ".", "-", ".", "-."}

\* Integer parts that int() takes though they are not plain bits (a second
\* sign, white space, an underscore, a 0b prefix), and some it refuses
LenientBinary ==
  {"+1", "--1", "-+1.1", "--1.1", "--0.1", " 1", "1 .01", "\t1\n", "1_0",
   "0b1", "0B11.1", "-0b_1.01", "--1." \o Repeat("0", Prec - 1) \o "1",
   "_1", "1_", "1__0", "0b", "0b__1", "+", "--", "- 1", "1'", "1\\", "1'\"",
   "1.é", Repeat("x", ReprLimit) \o ".1"}

\* What binary_to_decimal is called with
BinaryArgs ==
  {JStr(b) : b \in ShortBinary \cup SmallBinary \cup LongBinary
                   \cup HugeBinary \cup LenientBinary}
  \cup {JStr("abc"), JStr("2"), JStr("1x.1"), JStr("0.12"), JStr("é1"),
        JStr("1.1é"), JStr("²"), JStr("1'é"),
        JNull, JInt(0), JInt(5), JBool(FALSE), JList(<< >>), EmptyDict}

\* What format_bigfloat is called with
BigFloats ==
  {BF(b) : b \in ShortBinary \cup SmallBinary}
  \cup {BF("-1." \o Repeat("0", Prec - 2) \o "1")}
  \cup {With(BF("0.0001"), "precision_bits", JInt(128)), BF("abc"),
        JDict(Single("value", JNull)), JDict(Single("value", JInt(5))),
        JDict(Single("precision_bits", JInt(64))), JNull, JInt(7), JStr("wide"),
        JList(<<JInt(1)>>), EmptyDict}
  \cup {BF(b) : b \in {"+1", "--1.1", " 1", "1_0.1", "0b1", "1'", "_1"}}
  \cup {JStr("a'b"), JList(<<JStr("a'b"), JStr("a\\b\n"), JStr("'\"")>>),
        With(JDict(Single("a'b", JInt(1))), "c", JList(<<JStr("\f")>>)),
        JList(<<JStr("é")>>)}

\* A key that a document leaves out
Absent == [t |-> "absent"]
Put(d, k, v) == IF v = Absent THEN d ELSE With(d, k, v)

\* Counts of zeros after the point that go with every other field
EdgeCounts == {0, 1, 3, 4, 9, 10, 195, 196, 197}

\* Every count up to MaxZoom
ZoomCounts == 0..MaxZoom

ZoomWidth(n) ==
  With(BF("0." \o Repeat("0", n) \o "1"), "precision_bits", JInt(128))

Widths ==
  {Absent, BF("1"), BF("101"), BF(""), BF("abc"), BF("0.001"), BF("1.0.01"),
   JDict(Single("value", JNull)), JDict(Single("value", JInt(0))),
   JDict(Single("value", JInt(5))), JDict(Single("value", JList(<< >>))),
   JDict(Single("precision_bits", JInt(64))), JStr("wide"), JInt(3), JNull,
   BF("--1.01"), BF("+0b1.001"), BF(" 1"), BF("1'.1"), BF("+1"), BF("1_0"),
   BF("+0.001"), BF(" 0.01"), BF("1_0.01"), BF("0.0é"), BF("é"),
   JDict(Single("value", JBool(TRUE))), JDict(Single("value", JStr(""))),
   JDict(Single("value", JList(<<JStr(".")>>)))}
  \cup {ZoomWidth(n) : n \in EdgeCounts}
  \cup {BF("0." \o Repeat("0", 4)), BF("-1.001")}

Centers ==
  {Absent, JList(<<BF("-0.11"), BF("0.001")>>), JList(<<JNull, JNull>>),
   JList(<< >>), JList(<<BF("1")>>), JInt(5), JStr("ab")}

Heights == {Absent, BF("0.01"), JStr("tall")}

ViewportOf(c, w, h) ==
  Put(Put(Put(EmptyDict, "center", c), "width", w), "height", h)

\* Every width with two centers, every center and height with two widths
Viewports ==
  {Absent, JInt(5), JNull}
  \cup {ViewportOf(c, w, BF("0.01")) :
          c \in {Absent, JList(<<BF("-0.11"), BF("0.001")>>)}, w \in Widths}
  \cup {ViewportOf(c, w, h) :
          c \in Centers, w \in {Absent, BF("0.001")}, h \in Heights}

FullConfig ==
  With(With(JDict(Single("config_id", JStr("mandelbrot"))),
            "palette_name", JStr("classic")), "version", JInt(1))

\* A config whose values are not plain texts
QuotedConfig ==
  With(With(JDict(Single("version", JList(<<JStr("a\\b"), JStr("\f")>>))),
            "palette_name", JList(<<JStr("a'b")>>)),
       "config_id", With(JDict(Single("b", JInt(1))), "a", JStr("'\"")))

Configs ==
  {EmptyDict, JDict(Single("version", JInt(1))), FullConfig, QuotedConfig}

FullRender ==
  With(With(JDict(Single("cycle_count", JInt(1))), "use_gpu", JBool(TRUE)),
       "xray_enabled", JBool(FALSE))

Renders ==
  {Absent, EmptyDict, JStr("fast"), JDict(Single("cycle_count", JInt(2))),
   FullRender}

StateOf(cfg, vp, rs) == Put(Put(cfg, "viewport", vp), "render_settings", rs)

\* What format_viewport is called with: every viewport in a bare and in a
\* full document, every config and render settings with three viewports
StateDocuments ==
  {StateOf(EmptyDict, vp, Absent) : vp \in Viewports}
  \cup {StateOf(FullConfig, vp, FullRender) : vp \in Viewports}
  \cup {StateOf(cfg, vp, rs) :
          cfg \in Configs, rs \in Renders,
          vp \in {Absent, EmptyDict,
                  ViewportOf(JList(<<BF("-0.11"), BF("0.001")>>),
                             BF("0.0001"), BF("0.01"))}}
  \cup {StateOf(EmptyDict, ViewportOf(Absent, ZoomWidth(n), Absent), Absent) :
          n \in ZoomCounts}
  \cup {JList(<< >>), JNull, JDict(Single("palette_name", JStr("é"))),
        With(JDict(Single("é", JList(<<JStr("ü'"), JStr("\f")>>))),
             "version", JStr("ÿ¡"))}

(***************************************************************************)
(* The program as a state machine.  A call of decode_fractalwonder_url     *)
(* goes through its stages one action at a time; the other functions are   *)
(* one action each.  prec is the precision of the decimal context, which   *)
(* outlives every call; the other variables are the running call's.        *)
(***************************************************************************)
VARIABLES
  pc,            \* "idle", a stage of the decoder, or "done"
  call,          \* the function that is running or has just finished
  url_or_hash,   \* decode_fractalwonder_url: the argument
  source,        \* where the argument came from (not a program variable)
  hash_data,     \* line 30 or 31
  encoded,       \* line 36
  padded,        \* encoded after lines 40-42
  compressed,    \* line 44
  decompressed,  \* line 47
  ran,           \* the stages of this call that have run, in order
  value,         \* the argument of the other functions
  show_raw,      \* format_viewport: the second argument
  result,        \* what the call returned or raised
  prec           \* decimal.getcontext().prec

vars == <<pc, call, url_or_hash, source, hash_data, encoded, padded,
          compressed, decompressed, ran, value, show_raw, result, prec>>

decoder == <<url_or_hash, source, hash_data, encoded, padded, compressed,
             decompressed, ran>>

NoResult == [ok |-> FALSE, doc |-> JNull, dec |-> DecZero, text |-> "",
             err |-> NoError]
Returned(doc) == [NoResult EXCEPT !.ok = TRUE, !.doc = doc]
ReturnedDecimal(x) == [NoResult EXCEPT !.ok = TRUE, !.dec = x]
ReturnedText(text) == [NoResult EXCEPT !.ok = TRUE, !.text = text]
Raised(e) == [NoResult EXCEPT !.err = e]

Init ==
  /\ pc = "idle"
  /\ call = ""
  /\ url_or_hash = ""
  /\ source = Untracked
  /\ hash_data = ""
  /\ encoded = ""
  /\ padded = ""
  /\ compressed = << >>
  /\ decompressed = << >>
  /\ ran = << >>
  /\ value = JNull
  /\ show_raw = FALSE
  /\ result = NoResult
  /\ prec = DefaultPrec

\* decode_fractalwonder_url(url_or_hash) is called
CallDecode ==
  /\ pc = "idle"
  /\ \E c \in DecodeInputs :
       /\ url_or_hash' = c.url
       /\ source' = c.src
  /\ pc' = "extract"
  /\ call' = "decode_fractalwonder_url"
  /\ UNCHANGED <<hash_data, encoded, padded, compressed, decompressed, ran,
                 value, show_raw, result, prec>>

\* Lines 26-30: the fragment of a URL, the whole text otherwise
Extract ==
  /\ pc = "extract"
  /\ \E extract \in {ExtractHash(url_or_hash)} :
         IF extract.ok
         THEN /\ hash_data' = extract.fragment
              /\ pc' = "marker"
              /\ UNCHANGED result
         ELSE /\ result' = Raised(extract.err)
              /\ pc' = "done"
              /\ UNCHANGED hash_data
  /\ ran' = Append(ran, "extract")
  /\ UNCHANGED <<call, url_or_hash, source, encoded, padded, compressed,
                 decompressed, value, show_raw, prec>>

\* Lines 33-36: the marker is checked and stripped
CheckMarker ==
  /\ pc = "marker"
  /\ IF HasMarker(hash_data)
     THEN /\ encoded' = StripMarker(hash_data)
          /\ pc' = "base64"
          /\ UNCHANGED result
     ELSE /\ result' = Raised(Raise("ValueError", FormatErrorMsg))
          /\ pc' = "done"
          /\ UNCHANGED encoded
  /\ ran' = Append(ran, "marker")
  /\ UNCHANGED <<call, url_or_hash, source, hash_data, padded, compressed,
                 decompressed, value, show_raw, prec>>

\* Lines 40-44: the padding is restored and the payload decoded
Base64Decode ==
  /\ pc = "base64"
  /\ padded' = Repad(encoded)
  /\ \E b64 \in {urlsafe_b64decode(Repad(encoded))} :
         IF b64.ok
         THEN /\ compressed' = b64.data
              /\ pc' = "inflate"
              /\ UNCHANGED result
         ELSE /\ result' = Raised(b64.err)
              /\ pc' = "done"
              /\ UNCHANGED compressed
  /\ ran' = Append(ran, "base64")
  /\ UNCHANGED <<call, url_or_hash, source, hash_data, encoded, decompressed,
                 value, show_raw, prec>>

\* Line 47
Decompress ==
  /\ pc = "inflate"
  /\ \E inflated \in {zlib_decompress(compressed)} :
         IF inflated.ok
         THEN /\ decompressed' = inflated.data
              /\ pc' = "parse"
              /\ UNCHANGED result
         ELSE /\ result' = Raised(inflated.err)
              /\ pc' = "done"
              /\ UNCHANGED decompressed
  /\ ran' = Append(ran, "inflate")
  /\ UNCHANGED <<call, url_or_hash, source, hash_data, encoded, padded,
                 compressed, value, show_raw, prec>>

\* Line 50: the text is decoded and parsed, and the document returned
Parse ==
  /\ pc = "parse"
  /\ \E parsed \in {ParseDocument(decompressed)} :
         result' = IF parsed.ok THEN Returned(parsed.v) ELSE Raised(parsed.err)
  /\ pc' = "done"
  /\ ran' = Append(ran, "parse")
  /\ UNCHANGED <<call, url_or_hash, source, hash_data, encoded, padded,
                 compressed, decompressed, value, show_raw, prec>>

\* Line 56 runs in every call of binary_to_decimal, and format_bigfloat
\* calls binary_to_decimal for a dict with a "value" (lines 89-91)
BigfloatConverts(bf) == IsBigFloat(bf)

\* Whether format_viewport reaches a call of binary_to_decimal (lines 108-115)
ViewportConverts(state) ==
  LET viewport == PyGet(state, "viewport", EmptyDict)
      center == PyGet(viewport.value, "center", JList(<<JNull, JNull>>))
      c0 == Subscript(center.value, 0)
      c1 == Subscript(center.value, 1)
  IN  /\ viewport.ok /\ center.ok /\ c0.ok
      /\ \/ BigfloatConverts(c0.value)
         \/ /\ c1.ok
            /\ \/ BigfloatConverts(c1.value)
               \/ BigfloatConverts(Get(viewport.value, "width", JNull))
               \/ BigfloatConverts(Get(viewport.value, "height", JNull))

\* binary_to_decimal(binary_str), lines 53-84
BinaryToDecimal ==
  /\ pc = "idle"
  /\ \E binary_str \in BinaryArgs :
       /\ value' = binary_str
       /\ \E r \in {binary_to_decimal(binary_str, Prec)} :
            /\ ~r.unmodelled
            /\ result' = IF r.ok THEN ReturnedDecimal(r.value) ELSE Raised(r.err)
  /\ prec' = Prec
  /\ pc' = "done"
  /\ call' = "binary_to_decimal"
  /\ UNCHANGED <<decoder, show_raw>>

\* format_bigfloat(bf), lines 87-96
FormatBigfloat ==
  /\ pc = "idle"
  /\ \E bf \in BigFloats :
       /\ value' = bf
       /\ \E r \in {format_bigfloat(bf, Prec)} :
            /\ ~r.unmodelled
            /\ result' = IF r.ok THEN ReturnedText(r.text) ELSE Raised(r.err)
       /\ prec' = IF BigfloatConverts(bf) THEN Prec ELSE prec
  /\ pc' = "done"
  /\ call' = "format_bigfloat"
  /\ UNCHANGED <<decoder, show_raw>>

\* format_viewport(state, show_raw), lines 99-153
FormatViewport ==
  /\ pc = "idle"
  /\ \E state \in StateDocuments, raw \in BOOLEAN :
       /\ value' = state
       /\ show_raw' = raw
       /\ \E r \in {format_viewport(state, raw, Prec)} :
            /\ ~r.unmodelled
            /\ result' = IF r.ok THEN ReturnedText(r.text) ELSE Raised(r.err)
       /\ prec' = IF ViewportConverts(state) THEN Prec ELSE prec
  /\ pc' = "done"
  /\ call' = "format_viewport"
  /\ UNCHANGED decoder

\* The call is over: its variables are gone, the decimal context stays
Return ==
  /\ pc = "done"
  /\ pc' = "idle"
  /\ call' = ""
  /\ url_or_hash' = ""
  /\ source' = Untracked
  /\ hash_data' = ""
  /\ encoded' = ""
  /\ padded' = ""
  /\ compressed' = << >>
  /\ decompressed' = << >>
  /\ ran' = << >>
  /\ value' = JNull
  /\ show_raw' = FALSE
  /\ result' = NoResult
  /\ UNCHANGED prec

Next ==
  \/ CallDecode
  \/ Extract
  \/ CheckMarker
  \/ Base64Decode
  \/ Decompress
  \/ Parse
  \/ BinaryToDecimal
  \/ FormatBigfloat
  \/ FormatViewport
  \/ Return

Spec == Init /\ [][Next]_vars

(***************************************************************************)
(* Properties of decode_fractalwonder_url                                  *)
(***************************************************************************)
Decoding == call = "decode_fractalwonder_url"

\* The stages of the running call that are over
Ran(stage) == \E k \in 1..Len(ran) : ran[k] = stage

\* s[i..] starts with p
HasSubAt(s, i, p) == i + Len(p) - 1 <= Len(s) /\ SubSeq(s, i, i + Len(p) - 1) = p

\* p occurs in s
HasSub(s, p) == \E i \in 1..(Len(s) - Len(p) + 1) : HasSubAt(s, i, p)

\* The token does not begin with the three characters v1:
MarkerAbsent(token) == ~HasSubAt(token, 1, "v1:")

FormatError == [cls |-> "ValueError",
                msg |-> "Invalid format: expected 'v1:' prefix"]

\* C1: whenever the token the call extracted (the bare text, or the fragment
\* of the URL) does not begin with v1:, the call ends at the marker check
\* with the ValueError that names the expected 'v1:' prefix, and no call
\* returns a document for a token without the marker.
C1_MarkerRequired ==
  /\ (Decoding /\ Ran("marker") /\ MarkerAbsent(hash_data)) =>
       /\ pc = "done"
       /\ ran = <<"extract", "marker">>
       /\ result = Raised(FormatError)
  /\ (Decoding /\ pc = "done" /\ result.ok) => ~MarkerAbsent(hash_data)

\* A URL without a fragment has been refused for its missing marker
C1_Witness ==
  /\ Decoding /\ pc = "done"
  /\ url_or_hash = "https://x/v1:q64FAA"
  /\ hash_data = ""
  /\ result = Raised(FormatError)

\* C2: the document handed to the external encoder comes back from the
\* decoder as it was, and for every byte sequence the decoder appends
\* (4 - length mod 4) mod 4 pad characters to the payload, whose length mod 4
\* is 0, 2 or 3, and recovers the bytes.
C2_RoundTrip ==
  /\ (Decoding /\ pc = "done" /\ source.kind = "doc") =>
       result = Returned(source.doc)
  /\ (Decoding /\ Ran("base64") /\ source.kind # "raw") =>
       /\ Len(encoded) % 4 \in {0, 2, 3}
       /\ padded = encoded \o Repeat("=", (4 - (Len(encoded) % 4)) % 4)
  /\ (Decoding /\ Ran("base64") /\ source.kind = "bytes") =>
       compressed = source.bytes

\* An encoded document with a viewport in it has come back from a URL
C2_Witness ==
  /\ Decoding /\ pc = "done"
  /\ source.kind = "doc"
  /\ IsUrl(url_or_hash)
  /\ IsDict(source.doc) /\ HasKey(source.doc, "viewport")
  /\ result.ok /\ result.doc = source.doc
  /\ Len(padded) > Len(encoded)

\* The four kinds of error, told apart by the class of the exception and,
\* for a plain ValueError, its message (base64 raises a plain ValueError for
\* a character that is not ASCII, binascii.Error otherwise)
Kind(err) ==
  CASE err = FormatError -> "Format"
    [] err.cls = "binascii.Error" -> "Encoding"
    [] err = [cls |-> "ValueError",
              msg |-> "string argument should contain only ASCII characters"]
         -> "Encoding"
    [] err.cls = "zlib.error" -> "Decompression"
    [] err.cls \in {"UnicodeDecodeError", "JSONDecodeError"} -> "Parse"
    [] OTHER -> "other"

UrlSafeAlphabet ==
  "ABCDEFGHIJKLMNOPQRSTUVWXYZabcdefghijklmnopqrstuvwxyz0123456789-_"

\* Not unpadded URL-safe base64: a character outside the alphabet, or a
\* length that is 1 mod 4
InvalidPayload(payload) ==
  \/ Len(payload) % 4 = 1
  \/ \E i \in 1..Len(payload) : ~Contains(UrlSafeAlphabet, At(payload, i))

\* C3: a payload that is not valid unpadded URL-safe base64 ends the call at
\* the base64 stage with the Encoding error; decompression does not run.
C3_InvalidBase64Rejected ==
  (Decoding /\ Ran("base64") /\ InvalidPayload(encoded)) =>
    /\ pc = "done"
    /\ ran = <<"extract", "marker", "base64">>
    /\ ~result.ok /\ Kind(result.err) = "Encoding"

Stages == <<"extract", "marker", "base64", "inflate", "parse">>

\* The kind of error each stage fails with
StageKind(stage) ==
  CASE stage = "marker" -> "Format"
    [] stage = "base64" -> "Encoding"
    [] stage = "inflate" -> "Decompression"
    [] stage = "parse" -> "Parse"
    [] OTHER -> "none"

\* C4: the stages of a call run in the fixed order; a call that returns has
\* run them all; a call that fails has run no stage after the one that
\* failed, raises one error, of that stage's kind (Format, Encoding,
\* Decompression or Parse), and returns nothing.
C4_StagedFailure ==
  Decoding =>
    /\ ran = SubSeq(Stages, 1, Len(ran))
    /\ pc = "done" =>
         IF result.ok THEN ran = Stages
         ELSE /\ result.doc = JNull
              /\ Kind(result.err) \in
                   {"Format", "Encoding", "Decompression", "Parse"}
              /\ Kind(result.err) = StageKind(ran[Len(ran)])

(***************************************************************************)
(* Properties of binary_to_decimal                                         *)
(***************************************************************************)
Converting == call = "binary_to_decimal" /\ pc = "done"

Unsigned(b) == IF HasSubAt(b, 1, "-") THEN SubSeq(b, 2, Len(b)) ELSE b

\* An optional '-', integer bits, an optional '.', fractional bits
WellFormed(b) ==
  /\ \A i \in 1..Len(Unsigned(b)) : At(Unsigned(b), i) \in {"0", "1", "."}
  /\ Cardinality({i \in 1..Len(Unsigned(b)) : At(Unsigned(b), i) = "."}) <= 1

\* Where the '.' is, one past the end when there is none
PointAt(u) ==
  CHOOSE i \in 1..(Len(u) + 1) :
    /\ i <= Len(u) => At(u, i) = "."
    /\ \A j \in 1..(i - 1) : At(u, j) # "."

IntBits(b) == SubSeq(Unsigned(b), 1, PointAt(Unsigned(b)) - 1)
FracBits(b) ==
  SubSeq(Unsigned(b), PointAt(Unsigned(b)) + 1, Len(Unsigned(b)))

\* The digits of 2 * d + bit for the digits d of a whole number: each digit
\* is doubled and takes a carry when the digit after it is 5 or more; no
\* carry goes further, and the bit joins the last digit, which is even
TwicePlus(d, bit) ==
  LET n == Len(d)
      r == SubSeq([j \in 1..(n + 1) |->
                     (IF j >= 2 THEN (2 * d[j - 1]) % 10 ELSE 0)
                     + (IF j <= n THEN (IF d[j] >= 5 THEN 1 ELSE 0) ELSE bit)],
                  1, n + 1)
  IN  IF r[1] = 0 THEN Tail(r) ELSE r

RECURSIVE WholeRange(_, _, _, _)
\* acc after the bits lo..hi, read from the left
WholeRange(bits, lo, hi, acc) ==
  IF lo > hi THEN acc
  ELSE IF lo = hi
  THEN TwicePlus(acc, IF At(bits, lo) = "1" THEN 1 ELSE 0)
  ELSE LET mid == (lo + hi) \div 2
           L == WholeRange(bits, lo, mid, acc)
       IN  IF Len(L) = 0 THEN L ELSE WholeRange(bits, mid + 1, hi, L)

\* The decimal digits of the base-2 value of the integer bits (<<0>> for
\* none)
WholeValue(bits) == WholeRange(bits, 1, Len(bits), <<0>>)

\* The digits after the point of (bit + 0.d) / 2: half a digit is its half
\* in its own place and 5 in the next place when it is odd
HalfOf(bit, d) ==
  LET s == <<bit>> \o d
      n == Len(s)
  IN  SubSeq([j \in 1..n |->
                (IF j < n THEN s[j + 1] \div 2 ELSE 0) + 5 * (s[j] % 2)],
             1, n)

RECURSIVE FractionRange(_, _, _, _)
\* acc after the bits hi..lo, read from the right: the sum of 2^-i over the
\* '1' bits is ((b1 + (b2 + ...) / 2) / 2
FractionRange(bits, lo, hi, acc) ==
  IF lo > hi THEN acc
  ELSE IF lo = hi
  THEN HalfOf(IF At(bits, lo) = "1" THEN 1 ELSE 0, acc)
  ELSE LET mid == (lo + hi) \div 2
           R == FractionRange(bits, mid + 1, hi, acc)
       IN  IF Len(R) = 0 THEN R ELSE FractionRange(bits, lo, mid, R)

\* The digits after the point of the sum of 2^-i over the '1' bits at the
\* positions i of the fractional bits, one digit for each bit
FractionValue(bits) == FractionRange(bits, 1, Len(bits), << >>)

\* digits without their trailing zeros (<< >> when all are zeros)
StripTrailing(d) ==
  IF \A k \in 1..Len(d) : d[k] = 0 THEN << >>
  ELSE SubSeq(d, 1, CHOOSE k \in 1..Len(d) :
                      d[k] # 0 /\ \A j \in (k + 1)..Len(d) : d[j] = 0)

\* The digits of the Decimal x before and after the decimal point
WholeDigits(x) ==
  IF x.exp >= 0 THEN x.int \o Zeros(x.exp)
  ELSE SubSeq(x.int, 1, Len(x.int) + x.exp)
FractionDigits(x) ==
  IF x.exp >= 0 THEN << >>
  ELSE IF -x.exp >= Len(x.int) THEN Zeros(-x.exp - Len(x.int)) \o x.int
  ELSE SubSeq(x.int, Len(x.int) + x.exp + 1, Len(x.int))

\* x is the number with the digits whole before the point and frac after
\* it, negative when b has a '-'
ExactAs(x, b, whole, frac) ==
  /\ StripLeading(WholeDigits(x)) = whole
  /\ StripTrailing(FractionDigits(x)) = StripTrailing(frac)
  /\ IsZero(x) \/ (x.sign = 1 <=> HasSubAt(b, 1, "-"))

\* x is sign * (the integer bits + the fractional bits) of b, exactly
Exact(x, b) ==
  ExactAs(x, b, WholeValue(IntBits(b)), FractionValue(FracBits(b)))

\* The number of significant decimal digits of the number with the digits
\* whole before the point and frac after it: its digits from the first to
\* the last that is not zero
SigOf(whole, frac) == Len(StripLeading(StripTrailing(whole \o frac)))

\* The number of significant decimal digits of the exact value of b
SigDigits(b) == SigOf(WholeValue(IntBits(b)), FractionValue(FracBits(b)))

\* The significant digits that the Decimal x carries
Carried(x) == Len(StripLeading(StripTrailing(x.int)))

\* An integer without a sign and without fractional bits: lines 74 and 84
\* return it as Decimal(int) made it, without arithmetic
PlainInteger(b) == ~HasSubAt(b, 1, "-") /\ FracBits(b) = ""

\* C5 as stated: for a binary-fraction string of any length the result is
\* exactly sign * (integer part + sum of 2^-i over the '1' bits), an empty
\* string or integer part counting as zero.
C5_ExactAnyLength ==
  (Converting /\ value.t = "str" /\ WellFormed(value.s)) =>
    result.ok /\ Exact(result.dec, value.s)

\* C5: the result is exact for every binary-fraction string whose exact
\* value has at most 1000 significant decimal digits, the precision that
\* line 56 sets, and for every integer without '-' and without fractional
\* bits; for every other string the result carries at most 1000 significant
\* digits and is not the exact value.
C5_ExactWithinPrecision ==
  (Converting /\ value.t = "str" /\ WellFormed(value.s)) =>
    /\ result.ok
    /\ \A whole \in {WholeValue(IntBits(value.s))} :
         \A frac \in {FractionValue(FracBits(value.s))} :
           IF SigOf(whole, frac) <= 1000 \/ PlainInteger(value.s)
           THEN ExactAs(result.dec, value.s, whole, frac)
           ELSE /\ Carried(result.dec) <= 1000
                /\ ~ExactAs(result.dec, value.s, whole, frac)

\* A value of exactly 1000 significant digits, 2^-1430, has been converted:
\* its last '1' is the 1430th fractional bit
C5_Witness ==
  /\ Converting /\ value.t = "str" /\ WellFormed(value.s)
  /\ Len(FracBits(value.s)) = 1430
  /\ SigDigits(value.s) = 1000
  /\ result.ok /\ Len(result.dec.int) = 1000
  /\ Exact(result.dec, value.s)

(***************************************************************************)
(* Properties of format_bigfloat                                           *)
(***************************************************************************)
\* A digit, a point, 50 digits, E, a sign and the digits of the exponent,
\* after an optional '-'
Scientific(text) ==
  LET t == Unsigned(text)
  IN  /\ Len(t) >= 55
      /\ Contains(DigitChars, At(t, 1))
      /\ At(t, 2) = "."
      /\ \A i \in 3..52 : Contains(DigitChars, At(t, i))
      /\ At(t, 53) = "E"
      /\ At(t, 54) \in {"+", "-"}
      /\ \A i \in 55..Len(t) : Contains(DigitChars, At(t, i))

\* Digits with at most one point among them, after an optional '-'
PlainDecimal(text) ==
  LET t == Unsigned(text)
  IN  /\ Len(t) >= 1
      /\ \A i \in 1..Len(t) : Contains(DigitChars, At(t, i)) \/ At(t, i) = "."
      /\ Cardinality({i \in 1..Len(t) : At(t, i) = "."}) <= 1

\* x is not zero and its absolute value is below 10^-10: its first
\* significant digit stands at the eleventh decimal place or later
Tiny(x) == ~IsZero(x) /\ x.exp + Len(x.int) <= -10

\* C6: the output is in scientific notation with a 50-digit mantissa if and
\* only if the converted value is nonzero and below 10^-10 in absolute
\* value; every other value is written as a plain decimal string of at most
\* 80 characters.
C6_ScientificIffTiny ==
  (call = "format_bigfloat" /\ pc = "done" /\ result.ok /\ IsBigFloat(value)) =>
    LET x == binary_to_decimal(Item(value, "value"), Prec).value
    IN  IF Tiny(x) THEN Scientific(result.text)
        ELSE PlainDecimal(result.text) /\ Len(result.text) <= 80

(***************************************************************************)
(* Properties of format_viewport                                           *)
(***************************************************************************)
Reporting == call = "format_viewport" /\ pc = "done"

\* The fields of a document that is a dict, Absent for a missing one
Field(d, k) == IF IsDict(d) /\ HasKey(d, k) THEN Item(d, k) ELSE Absent

WidthOf(state) == Field(Field(state, "viewport"), "width")

\* The "value" of the width, which is its binary string when it is a str
WidthValue(state) == Field(WidthOf(state), "value")

\* A Precision Number: a dict whose "value" is a binary-fraction string
PrecisionNumber(v) ==
  Field(v, "value") # Absent /\ Field(v, "value").t = "str"
  /\ WellFormed(Field(v, "value").s)

\* The fields that the document has beside the width are of the types of
\* section 3; any of them may be missing
OthersWellTyped(state) ==
  LET vp == Field(state, "viewport")
      c == Field(vp, "center")
      rs == Field(state, "render_settings")
  IN  /\ IsDict(state)
      /\ vp = Absent \/ IsDict(vp)
      /\ c = Absent
         \/ (c.t = "list" /\ Len(c.items) = 2
             /\ \A k \in 1..2 : PrecisionNumber(c.items[k]))
      /\ Field(vp, "height") = Absent \/ PrecisionNumber(Field(vp, "height"))
      /\ rs = Absent \/ IsDict(rs)

\* The fields that the document has are of the types of section 3
FieldsWellTyped(state) ==
  /\ OthersWellTyped(state)
  /\ WidthOf(state) = Absent \/ PrecisionNumber(WidthOf(state))

\* No zoom depth can be derived from the width: the field is missing or of
\* the wrong type (not a dict, without a "value", its value not a str), or
\* its binary string has no '.'
ZoomUnavailable(state) ==
  \/ WidthValue(state).t # "str"
  \/ WellFormed(WidthValue(state).s) /\ ~Contains(WidthValue(state).s, ".")

\* The outcome of the call if lines 118-131 were not there
WithoutZoomStep(state, raw) ==
  Report(NumberLines(state, Prec), ZoomNone, RenderLines(state),
         <<ConfigLines(state), RawLines(state, raw)>>)

\* C7: when no zoom depth can be derived from the width, whatever goes wrong
\* in deriving it is swallowed: the call returns the report, which has no
\* zoom-depth line and whose other lines are what they would be without the
\* zoom step.
C7_ZoomErrorsSwallowed ==
  (Reporting /\ OthersWellTyped(value) /\ ZoomUnavailable(value)) =>
    /\ result.ok
    /\ ~HasSub(result.text, "Zoom Depth")
    /\ result.text = WithoutZoomStep(value, show_raw).text

\* The report has a line that shows what after the label
Shows(text, label, what) == HasSub(text \o "\n", "\n" \o label \o what \o "\n")

\* The line of the label shows one of the two sentinels
ShowsSentinel(text, label) ==
  Shows(text, label, "unknown") \/ Shows(text, label, "N/A")

\* The label of the line of each field of the viewport and of the document
ViewportLabels ==
  [width |-> "  Width:     ", height |-> "  Height:    "]
ConfigLabels ==
  [config_id |-> "  Config ID:    ", palette_name |-> "  Palette:      ",
   version |-> "  Version:      "]
RenderLabels ==
  [cycle_count |-> "  Cycle Count:  ", use_gpu |-> "  Use GPU:      ",
   xray_enabled |-> "  X-Ray:        "]

\* C8: for a document of well-typed fields of which any are missing, the
\* call returns a report, and the line of every missing field shows
\* 'unknown' or 'N/A'.
C8_MissingFieldsSentinel ==
  (Reporting /\ FieldsWellTyped(value)) =>
    /\ result.ok
    /\ Field(Field(value, "viewport"), "center") = Absent =>
         /\ ShowsSentinel(result.text, "  Center X:  ")
         /\ ShowsSentinel(result.text, "  Center Y:  ")
    /\ \A k \in DOMAIN ViewportLabels :
         Field(Field(value, "viewport"), k) = Absent =>
           ShowsSentinel(result.text, ViewportLabels[k])
    /\ \A k \in DOMAIN ConfigLabels :
         Field(value, k) = Absent => ShowsSentinel(result.text, ConfigLabels[k])
    /\ \A k \in DOMAIN RenderLabels :
         Field(Field(value, "render_settings"), k) = Absent =>
           ShowsSentinel(result.text, RenderLabels[k])

(***************************************************************************)
(* Properties of the state that outlives the calls                         *)
(***************************************************************************)
\* C9: no call changes state outside its own return value: the precision of
\* the decimal context is what it was before the calls.
C9_ContextUnchanged == prec = DefaultPrec

(***************************************************************************)
(* Properties of the zoom-depth estimate                                   *)
(***************************************************************************)
\* The zeros that follow the first '.' of the binary string, up to the first
\* character that is not '0'
ZerosAfterPoint(b) ==
  LET p == PointAt(b)
  IN  CHOOSE n \in 0..(Len(b) - p) :
        /\ \A j \in 1..n : At(b, p + j) = "0"
        /\ p + n < Len(b) => At(b, p + n + 1) # "0"

\* The line of the estimate for the exponents e and n
ZoomLine(e, n) ==
  "  Zoom Depth: ~10^" \o IntStr(e) \o " (2^" \o IntStr(n) \o ")"

\* floor(n * log10(2)): 2^n = 10^n / 5^n, and 5^n has L digits, so that
\* 10^(n-L) < 2^n < 10^(n-L+1) for n >= 1
FloorLog10Pow2(n) == IF n = 0 THEN 0 ELSE n - Len(Times5N(<<1>>, n))

\* The text has the line, between two line ends
HasLine(text, line) == HasSub(text, "\n" \o line \o "\n")

\* A report for a width whose binary string has a '.'
ZoomReported ==
  /\ Reporting /\ result.ok
  /\ WidthValue(value).t = "str" /\ Contains(WidthValue(value).s, ".")

\* C10 as stated: the report has the line "Zoom Depth: ~10^e (2^n)" for the
\* count n of zeros after the point and e = floor(n * log10(2)).
C10_ZoomIsFloorLog ==
  ZoomReported =>
    \A n \in {ZerosAfterPoint(WidthValue(value).s)} :
      HasLine(result.text, ZoomLine(FloorLog10Pow2(n), n))

\* C10: the report has the line "Zoom Depth: ~10^e (2^n)" for the count n of
\* zeros after the point and e = floor(n * 0.301), the integer with
\* 1000 e <= 301 n < 1000 (e + 1), which is floor(n * log10(2)) for every n
\* below 196.
C10_ZoomIsFloorOf301 ==
  ZoomReported =>
    \A n \in {ZerosAfterPoint(WidthValue(value).s)} :
      /\ \E e \in 0..n :
           /\ 1000 * e <= 301 * n
           /\ 301 * n < 1000 * (e + 1)
           /\ HasLine(result.text, ZoomLine(e, n))
      /\ n < 196 => HasLine(result.text, ZoomLine(FloorLog10Pow2(n), n))

\* The estimate for 196 zeros has been reported as 10^58, where
\* floor(196 * log10(2)) is 59
C10_Witness ==
  /\ ZoomReported
  /\ ZerosAfterPoint(WidthValue(value).s) = 196
  /\ HasLine(result.text, "  Zoom Depth: ~10^58 (2^196)")
  /\ FloorLog10Pow2(196) = 59

====
